---- MODULE Spec2Model ----
(***************************************************************************)
(* Authentication / authorization core of the CRT backend:                 *)
(*   app/core/jwt.py                  token codec                          *)
(*   app/middleware/auth_middleware.py  AuthMiddleware.dispatch            *)
(*   app/utils/decorators.py, app/core/permissions.py  require_permission  *)
(*   app/middleware/error_handler.py  http_exception_handler               *)
(*                                                                         *)
(* Python values are modelled as follows.                                  *)
(*   dict            a function with a domain of key strings               *)
(*   None            the record None                                       *)
(*   list of str     a sequence of strings                                 *)
(*   str that the code only compares or concatenates   a TLA+ string       *)
(*   str that the code parses (header, path, sub)      a sequence of       *)
(*                   lexemes: the code's startswith/split/strip/int are    *)
(*                   computed on the sequence                              *)
(*   raise E         a record [raised |-> E, ...] returned to the caller   *)
(* Time is the integer number of seconds of a JWT NumericDate.             *)
(***************************************************************************)
EXTENDS Integers, Sequences, FiniteSets, TLC

VARIABLES
    now,            \* the server clock, seconds
    issued,         \* the last create_access_token call: [data, token], or None
    pc,             \* where the request in flight is: idle, routing, done
    request,        \* the request in flight: [method, path, headers], or None
    payload,        \* dispatch's local `payload`: Unbound until line 75 ran
    state_user,     \* request.state.user, None while the attribute is not set
    called_next,    \* dispatch called call_next(request)
    route,          \* the (action, resource) the matched route's guard is bound to
    guard,          \* what permission_checker did: Unbound, or its result
    handler_called, \* the route's handler body ran
    response,       \* the response the client gets: [status, body], or None
    users,          \* the users table joined with roles: a set of rows
    permission_rows,\* the permissions table: a set of rows
    login_call,     \* the AuthService.login call that just returned, or None
    conn,           \* the requests served concurrently, by connection
    state_store,    \* the `state` objects of those requests: the user attribute
    service_call,   \* the service method the handler called, or None
    college_active, \* colleges.is_active of the college the requests name
    tables,         \* the tables the college and student services work on
    calls,          \* the assign_course_to_students calls in flight, by session
    last_call       \* the service call that just returned: its input and result

vars == <<now, issued, pc, request, payload, state_user, called_next,
          route, guard, handler_called, response,
          users, permission_rows, login_call, conn, state_store,
          service_call, college_active, tables, calls, last_call>>

-----------------------------------------------------------------------------
(* Python values *)

None == [py |-> "None"]
Unbound == [py |-> "unbound"]

\* dict.get(key, default)
Get(d, key, default) == IF key \in DOMAIN d THEN d[key] ELSE default

\* x in list
InList(x, list) == \E i \in 1..Len(list) : list[i] = x

\* s.startswith(p), both sequences of lexemes
StartsWith(s, p) == Len(s) >= Len(p) /\ SubSeq(s, 1, Len(p)) = p

-----------------------------------------------------------------------------
(* Bounds and program constants *)

\* The clock visits the instants one second around each multiple of the token
\* lifetime, up to MaxEpoch lifetimes.
MaxEpoch == 1

ACCESS_TOKEN_EXPIRE_MINUTES == 60

\* The number of requests served at the same time.
MaxInFlight == 2

ALGORITHM == "HS256"

\* settings.SECRET_KEY: the server's signing secret.
SECRET_KEY == "server-secret"

TTL == ACCESS_TOKEN_EXPIRE_MINUTES * 60

Times == {t \in {k * TTL + j : k \in 0..MaxEpoch, j \in {-1, 0, 1}} : t >= 0}

-----------------------------------------------------------------------------
(* Lexemes of the strings the code parses *)

Word(w) == [t |-> "word", v |-> w]      \* a run of non-blank characters
SP == [t |-> "sp"]                      \* one space character
Jws(tok) == [t |-> "jws", v |-> tok]    \* the compact serialization of tok

IsSpace(x) == x.t = "sp"

\* s.split(" ", 1)[1]: what follows the first space of s (s holds one).
AfterFirstSpace(s) ==
    LET i == CHOOSE k \in 1..Len(s) :
                 IsSpace(s[k]) /\ \A j \in 1..(k - 1) : ~IsSpace(s[j])
    IN SubSeq(s, i + 1, Len(s))

RECURSIVE LStrip(_)
LStrip(s) == IF s # <<>> /\ IsSpace(Head(s)) THEN LStrip(Tail(s)) ELSE s

RECURSIVE RStrip(_)
RStrip(s) ==
    IF s # <<>> /\ IsSpace(s[Len(s)]) THEN RStrip(SubSeq(s, 1, Len(s) - 1)) ELSE s

\* s.strip()
Strip(s) == RStrip(LStrip(s))

DigitValue(c) ==
    CASE c = "0" -> 0 [] c = "1" -> 1 [] c = "2" -> 2 [] c = "3" -> 3
      [] c = "4" -> 4 [] c = "5" -> 5 [] c = "6" -> 6 [] c = "7" -> 7
      [] c = "8" -> 8 [] c = "9" -> 9 [] OTHER -> -1

RECURSIVE DecimalValue(_)
DecimalValue(s) ==
    IF s = <<>> THEN 0
    ELSE 10 * DecimalValue(SubSeq(s, 1, Len(s) - 1)) + DigitValue(s[Len(s)])

\* int(s) for a str s given as its characters: the number, or ValueError.
int(s) ==
    IF s # <<>> /\ \A i \in 1..Len(s) : DigitValue(s[i]) >= 0
    THEN [value |-> DecimalValue(s)]
    ELSE [raised |-> "ValueError"]

-----------------------------------------------------------------------------
(* Token codec: app/core/jwt.py over jose.jwt (HS256) *)

\* HMAC of the signing input under key: only the holder of key produces it,
\* and it verifies only against the same header and claims.
Sign(key, header, claims) == [key |-> key, header |-> header, claims |-> claims]

\* jose.jwt.encode(claims, key, algorithm)
jwt_encode(claims, key, algorithm) ==
    LET header == [alg |-> algorithm, typ |-> "JWT"]
    IN [header |-> header, claims |-> claims,
        signature |-> Sign(key, header, claims)]

create_access_token_no_permissions(data, t) ==
    LET to_encode == [k \in ((DOMAIN data) \ {"permissions"}) \cup {"exp"} |->
                         IF k = "exp" THEN t + TTL ELSE data[k]]
    IN jwt_encode(to_encode, SECRET_KEY, ALGORITHM)

\* create_access_token(data) called at time t
create_access_token(data, t) ==
    LET to_encode == [k \in (DOMAIN data) \cup {"exp"} |->
                         IF k = "exp" THEN t + TTL ELSE data[k]]
    IN jwt_encode(to_encode, SECRET_KEY, ALGORITHM)

JWTError == [raised |-> "JWTError"]
Raised(x) == "raised" \in DOMAIN x

jwt_decode_no_expiry(token, key, algorithms, t) ==
    IF ~(Len(token) = 1 /\ token[1].t = "jws") THEN JWTError
    ELSE LET jws == token[1].v IN
         IF jws.header.alg \notin algorithms THEN JWTError
         ELSE IF jws.signature # Sign(key, jws.header, jws.claims) THEN JWTError
         ELSE jws.claims

jwt_decode_no_signature(token, key, algorithms, t) ==
    IF ~(Len(token) = 1 /\ token[1].t = "jws") THEN JWTError
    ELSE LET jws == token[1].v IN
         IF jws.header.alg \notin algorithms THEN JWTError
         ELSE IF "exp" \in DOMAIN jws.claims /\ jws.claims.exp < t THEN JWTError
         ELSE jws.claims

\* jose.jwt.decode(token, key, algorithms) called at time t: the claims, or
\* JWTError (ExpiredSignatureError and JWTClaimsError are JWTErrors).
jwt_decode(token, key, algorithms, t) ==
    IF ~(Len(token) = 1 /\ token[1].t = "jws") THEN JWTError
    ELSE LET jws == token[1].v IN
         IF jws.header.alg \notin algorithms THEN JWTError
         ELSE IF jws.signature # Sign(key, jws.header, jws.claims) THEN JWTError
         ELSE IF "exp" \in DOMAIN jws.claims /\ jws.claims.exp < t THEN JWTError
         ELSE jws.claims

decode_access_token_uncaught(token, t) ==
    jwt_decode(token, SECRET_KEY, {ALGORITHM}, t)

\* decode_access_token(token) called at time t
decode_access_token(token, t) ==
    LET payload_ == jwt_decode(token, SECRET_KEY, {ALGORITHM}, t)
    IN IF Raised(payload_) THEN None ELSE payload_

-----------------------------------------------------------------------------
(* Authentication Gate: app/middleware/auth_middleware.py *)

\* PUBLIC_PATHS exempting the admin routers as well
PUBLIC_PATHS_with_admin ==
    {<<"/api/auth">>, <<"/docs">>, <<"/redoc">>, <<"/openapi.json">>, <<"/health">>,
     <<"/api/admin">>}

PUBLIC_PATHS ==
    {<<"/api/auth">>, <<"/docs">>, <<"/redoc">>, <<"/openapi.json">>, <<"/health">>}

JSONResponse(status_code, content) ==
    [status_code |-> status_code, content |-> content]

\* An exception exc leaves dispatch: the server answers 500 with a plain text.
uncaught(exc) ==
    [status_code |-> 500, content |-> [text |-> "Internal Server Error"],
     uncaught |-> exc]

\* is_public_path comparing the whole path instead of its prefix
is_public_path_exact(path) == path \in PUBLIC_PATHS

\* any(path.startswith(p) for p in PUBLIC_PATHS)
is_public_path(path) == \E p \in PUBLIC_PATHS : StartsWith(path, p)

\* header_missing testing `auth_header is None` instead of `not auth_header`
header_missing_none_only(headers) == "Authorization" \notin DOMAIN headers

\* auth_header = request.headers.get("Authorization"); not auth_header
header_missing(headers) ==
    "Authorization" \notin DOMAIN headers \/ headers.Authorization = <<>>

\* starts_with_bearer taking any scheme word followed by a space
starts_with_bearer_any_scheme(auth_header) ==
    /\ Len(auth_header) >= 2
    /\ auth_header[1].t = "word"
    /\ IsSpace(auth_header[2])

\* auth_header.startswith("Bearer ")
starts_with_bearer(auth_header) ==
    /\ Len(auth_header) >= 2
    /\ auth_header[1].t = "word" /\ auth_header[1].v = "Bearer"
    /\ IsSpace(auth_header[2])

\* bearer_token without the strip()
bearer_token_no_strip(auth_header) == AfterFirstSpace(auth_header)

\* token = auth_header.split(" ", 1)[1].strip()
bearer_token(auth_header) == Strip(AfterFirstSpace(auth_header))

\* attach_user without the `if not payload` test: None.get raises
attach_user_no_payload_check(payload_) ==
    IF payload_ = None
    THEN [payload |-> payload_, user |-> None, call_next |-> FALSE,
          response |-> uncaught("AttributeError")]
    ELSE IF "sub" \notin DOMAIN payload_ \/ payload_.sub = <<>>
    THEN [payload |-> payload_, user |-> None, call_next |-> FALSE,
          response |-> JSONResponse(401,
                          [detail |-> "User identity missing in token"])]
    ELSE LET id == int(payload_.sub) IN
         IF Raised(id)
         THEN [payload |-> payload_, user |-> None, call_next |-> FALSE,
               response |-> uncaught(id.raised)]
         ELSE [payload |-> payload_,
               user |-> [id |-> id.value,
                         role |-> Get(payload_, "role", "USER"),
                         permissions |-> Get(payload_, "permissions", <<>>)],
               call_next |-> TRUE, response |-> None]

\* attach_user reading the role with payload["role"] semantics of another
\* default: a token without a role claim becomes an ADMIN context
attach_user_default_admin(payload_) ==
    IF payload_ = None \/ DOMAIN payload_ = {}
    THEN [payload |-> payload_, user |-> None, call_next |-> FALSE,
          response |-> JSONResponse(401, [detail |-> "Invalid token payload"])]
    ELSE IF "sub" \notin DOMAIN payload_ \/ payload_.sub = <<>>
    THEN [payload |-> payload_, user |-> None, call_next |-> FALSE,
          response |-> JSONResponse(401,
                          [detail |-> "User identity missing in token"])]
    ELSE LET id == int(payload_.sub) IN
         IF Raised(id)
         THEN [payload |-> payload_, user |-> None, call_next |-> FALSE,
               response |-> uncaught(id.raised)]
         ELSE [payload |-> payload_,
               user |-> [id |-> id.value,
                         role |-> Get(payload_, "role", "ADMIN"),
                         permissions |-> Get(payload_, "permissions", <<>>)],
               call_next |-> TRUE, response |-> None]

\* attach_user looking the subject up in the users table: an unknown or
\* inactive account is refused
attach_user_live_check(payload_) ==
    IF payload_ = None \/ DOMAIN payload_ = {}
    THEN [payload |-> payload_, user |-> None, call_next |-> FALSE,
          response |-> JSONResponse(401, [detail |-> "Invalid token payload"])]
    ELSE IF "sub" \notin DOMAIN payload_ \/ payload_.sub = <<>>
    THEN [payload |-> payload_, user |-> None, call_next |-> FALSE,
          response |-> JSONResponse(401,
                          [detail |-> "User identity missing in token"])]
    ELSE LET id == int(payload_.sub) IN
         IF Raised(id)
         THEN [payload |-> payload_, user |-> None, call_next |-> FALSE,
               response |-> uncaught(id.raised)]
         ELSE IF ~\E u \in users : u.id = id.value /\ u.is_active
         THEN [payload |-> payload_, user |-> None, call_next |-> FALSE,
               response |-> JSONResponse(401,
                               [detail |-> "User not found or inactive"])]
         ELSE [payload |-> payload_,
               user |-> [id |-> id.value,
                         role |-> Get(payload_, "role", "USER"),
                         permissions |-> Get(payload_, "permissions", <<>>)],
               call_next |-> TRUE, response |-> None]

\* attach_user taking the role the users table holds now for the subject
attach_user_current_role(payload_) ==
    IF payload_ = None \/ DOMAIN payload_ = {}
    THEN [payload |-> payload_, user |-> None, call_next |-> FALSE,
          response |-> JSONResponse(401, [detail |-> "Invalid token payload"])]
    ELSE IF "sub" \notin DOMAIN payload_ \/ payload_.sub = <<>>
    THEN [payload |-> payload_, user |-> None, call_next |-> FALSE,
          response |-> JSONResponse(401,
                          [detail |-> "User identity missing in token"])]
    ELSE LET id == int(payload_.sub) IN
         IF Raised(id)
         THEN [payload |-> payload_, user |-> None, call_next |-> FALSE,
               response |-> uncaught(id.raised)]
         ELSE [payload |-> payload_,
               user |-> [id |-> id.value,
                         role |-> IF \E u \in users : u.id = id.value
                                  THEN (CHOOSE u \in users : u.id = id.value).role
                                  ELSE Get(payload_, "role", "USER"),
                         permissions |-> Get(payload_, "permissions", <<>>)],
               call_next |-> TRUE, response |-> None]

\* What dispatch does with its local `payload` once the token is decoded
\* (lines 82-107).
attach_user(payload_) ==
    IF payload_ = None \/ DOMAIN payload_ = {}
    THEN [payload |-> payload_, user |-> None, call_next |-> FALSE,
          response |-> JSONResponse(401, [detail |-> "Invalid token payload"])]
    ELSE IF "sub" \notin DOMAIN payload_ \/ payload_.sub = <<>>
    THEN [payload |-> payload_, user |-> None, call_next |-> FALSE,
          response |-> JSONResponse(401,
                          [detail |-> "User identity missing in token"])]
    ELSE LET id == int(payload_.sub) IN
         IF Raised(id)
         \* int() raised and dispatch catches nothing here
         THEN [payload |-> payload_, user |-> None, call_next |-> FALSE,
               response |-> uncaught(id.raised)]
         ELSE [payload |-> payload_,
               user |-> [id |-> id.value,
                         role |-> Get(payload_, "role", "USER"),
                         permissions |-> Get(payload_, "permissions", <<>>)],
               call_next |-> TRUE, response |-> None]

\* AuthMiddleware.dispatch(request, call_next) at time t, up to call_next:
\* the local payload, request.state.user, whether call_next is called, and
\* the response dispatch itself returns (None when it calls call_next).
dispatch(req, t) ==
    LET pass == [payload |-> Unbound, user |-> None, call_next |-> TRUE,
                 response |-> None]
        reject(detail) ==
            [payload |-> Unbound, user |-> None, call_next |-> FALSE,
             response |-> JSONResponse(401, [detail |-> detail])]
    IN
    IF req.method = "OPTIONS" THEN pass
    ELSE IF is_public_path(req.path) THEN pass
    ELSE IF header_missing(req.headers)
    THEN reject("Authorization header missing")
    ELSE LET auth_header == req.headers.Authorization IN
         IF ~starts_with_bearer(auth_header)
         THEN reject("Invalid authorization format")
         ELSE LET token == bearer_token(auth_header) IN
              IF token = <<>> THEN reject("Token not provided")
              ELSE LET payload_ == decode_access_token(token, t) IN
                   IF Raised(payload_)
                   THEN [payload |-> payload_, user |-> None,
                         call_next |-> FALSE,
                         response |-> JSONResponse(401,
                             [detail |-> "Invalid or expired token"])]
                   ELSE attach_user(payload_)

-----------------------------------------------------------------------------
(* Authorization Gate: require_permission(action, resource) *)

HTTPException(status_code, detail) ==
    [raised |-> "HTTPException", status_code |-> status_code, detail |-> detail]

Returned(value) == [value |-> value]

\* permission_checker with an entry action:* granting every resource
permission_checker_wildcard(user, action, resource) ==
    IF user = None
    THEN HTTPException(401, "Authentication required")
    ELSE LET role == user.role
             permissions == user.permissions
         IN IF role = "ADMIN" THEN Returned(TRUE)
            ELSE LET required_permission == action \o ":" \o resource IN
                 IF ~InList(required_permission, permissions)
                    /\ ~InList(action \o ":*", permissions)
                 THEN HTTPException(403,
                          "You do not have permission to perform this action")
                 ELSE Returned(TRUE)

\* permission_checker without the ADMIN bypass
permission_checker_no_bypass(user, action, resource) ==
    IF user = None
    THEN HTTPException(401, "Authentication required")
    ELSE LET permissions == user.permissions
             required_permission == action \o ":" \o resource
         IN IF ~InList(required_permission, permissions)
            THEN HTTPException(403,
                     "You do not have permission to perform this action")
            ELSE Returned(TRUE)

\* permission_checker answering 403 when no user is attached
permission_checker_anonymous_forbidden(user, action, resource) ==
    IF user = None
    THEN HTTPException(403,
             "You do not have permission to perform this action")
    ELSE LET role == user.role
             permissions == user.permissions
         IN IF role = "ADMIN" THEN Returned(TRUE)
            ELSE LET required_permission == action \o ":" \o resource IN
                 IF ~InList(required_permission, permissions)
                 THEN HTTPException(403,
                          "You do not have permission to perform this action")
                 ELSE Returned(TRUE)

\* app/utils/decorators.py: permission_checker(request), with user the value
\* of getattr(request.state, "user", None)
permission_checker(user, action, resource) ==
    IF user = None
    THEN HTTPException(401, "Authentication required")
    ELSE LET role == user.role
             permissions == user.permissions
         IN IF role = "ADMIN" THEN Returned(TRUE)
            ELSE LET required_permission == action \o ":" \o resource IN
                 IF ~InList(required_permission, permissions)
                 THEN HTTPException(403,
                          "You do not have permission to perform this action")
                 ELSE Returned(TRUE)

\* app/core/permissions.py: permission_checker(request)
core_permission_checker(user, action, resource) ==
    IF user = None
    THEN HTTPException(401, "Authentication required")
    ELSE LET role == user.role
             permissions == user.permissions
         IN IF role = "ADMIN" THEN Returned(TRUE)
            ELSE LET required_permission == action \o ":" \o resource IN
                 IF ~InList(required_permission, permissions)
                 THEN HTTPException(403,
                          "You do not have permission to perform this action")
                 ELSE Returned(TRUE)

\* The guard a route is bound to, from either module.
require_permission(module, user, action, resource) ==
    IF module = "app.core.permissions"
    THEN core_permission_checker(user, action, resource)
    ELSE permission_checker(user, action, resource)

\* app/middleware/error_handler.py: http_exception_handler(request, exc)
http_exception_handler(exc) ==
    JSONResponse(exc.status_code, [success |-> FALSE, message |-> exc.detail])

\* app/main.py: health_check()
health_check ==
    JSONResponse(200, [status |-> "OK", service |-> "CRT Backend",
                       version |-> "1.0.0"])

\* request_state with one module-level object shared by all requests
request_state_shared(r) == 0

\* request.state of the request on connection r: the object that request owns.
request_state(r) == r

\* The (action, resource) the route of the request is bound to.
route_guard(req) ==
    IF req.path = <<"/api/admin", "/courses", "/1">>
    THEN [action |-> "edit", resource |-> "courses"]
    ELSE [action |-> "view", resource |-> "student_dashboard"]

-----------------------------------------------------------------------------
(* The application as create_app wires it: the routes of the included       *)
(* routers, their guards, and what each handler does before its service     *)

\* A registered route. path is the route's path with every parameter set to
\* 1; dependency is <<>> or the <<action, resource>> of its
\* require_permission guard; check names the test the handler makes on request.state.user
\* before it calls its service; changes tells whether the service writes.
Rt(name, method, path, dependency, check, changes) ==
    [name |-> name, method |-> method, path |-> path, guard |-> dependency,
     check |-> check, changes |-> changes]

Routes ==
    { Rt("login", "POST", <<"/api/auth", "/login">>, <<>>, "none", FALSE),
      Rt("health_check", "GET", <<"/health">>, <<>>, "none", FALSE),
      Rt("admin_dashboard", "GET", <<"/api/admin", "/admin", "/dashboard">>,
         <<>>, "getattr_admin", FALSE),
      Rt("create_college", "POST", <<"/api/admin", "/colleges">>,
         <<"create", "colleges">>, "none", TRUE),
      Rt("list_colleges", "GET", <<"/api/admin", "/colleges">>,
         <<"view", "colleges">>, "none", FALSE),
      Rt("get_college", "GET", <<"/api/admin", "/colleges", "/1">>,
         <<"view", "colleges">>, "none", FALSE),
      Rt("update_college", "PUT", <<"/api/admin", "/colleges", "/1">>,
         <<"edit", "colleges">>, "none", TRUE),
      Rt("delete_college", "DELETE", <<"/api/admin", "/colleges", "/1">>,
         <<>>, "none", TRUE),
      Rt("create_course", "POST", <<"/api/admin", "/courses">>,
         <<"create", "courses">>, "none", TRUE),
      Rt("list_courses", "GET", <<"/api/admin", "/courses">>,
         <<"view", "courses">>, "none", FALSE),
      Rt("get_course", "GET", <<"/api/admin", "/courses", "/1">>,
         <<"view", "courses">>, "none", FALSE),
      Rt("update_course", "PUT", <<"/api/admin", "/courses", "/1">>,
         <<"edit", "courses">>, "none", TRUE),
      Rt("delete_course", "DELETE", <<"/api/admin", "/courses", "/1">>,
         <<"delete", "courses">>, "none", TRUE),
      Rt("upload_course_file", "POST",
         <<"/api/admin", "/courses", "/1", "/files">>,
         <<>>, "subscript_admin", TRUE),
      Rt("list_course_files", "GET",
         <<"/api/admin", "/courses", "/1", "/files">>,
         <<>>, "subscript_admin", FALSE),
      Rt("list_course_pdfs", "GET",
         <<"/api/admin", "/courses", "/1", "/pdfs">>,
         <<>>, "subscript_admin", FALSE),
      Rt("stream_pdf", "GET",
         <<"/api/admin", "/courses", "/course-files", "/1", "/stream">>,
         <<>>, "subscript_admin", FALSE),
      Rt("list_tests", "GET", <<"/api/admin", "/tests">>,
         <<"view", "tests">>, "none", FALSE),
      Rt("college_dashboard", "GET", <<"/api/college", "/dashboard">>,
         <<"view", "college_dashboard">>, "service_college_admin", FALSE),
      Rt("list_students", "GET", <<"/api/college", "/students">>,
         <<>>, "get_college_admin", FALSE),
      Rt("filter_students", "GET", <<"/api/college", "/students", "/filter">>,
         <<>>, "get_college_admin", FALSE),
      Rt("search_students", "GET", <<"/api/college", "/students", "/search">>,
         <<>>, "get_college_admin", FALSE),
      Rt("add_single_student", "POST", <<"/api/college">>,
         <<>>, "get_college_admin", TRUE),
      Rt("bulk_upload_students", "POST", <<"/api/college", "/bulk-upload">>,
         <<>>, "get_college_admin", TRUE),
      Rt("student_progress", "GET",
         <<"/api/college", "/students", "/progress">>,
         <<>>, "get_college_admin", FALSE),
      Rt("assign_course", "POST", <<"/api/college", "/courses", "/assign">>,
         <<>>, "get_college_admin", TRUE),
      Rt("list_college_courses", "GET", <<"/api/college", "/courses">>,
         <<>>, "get_college_admin", FALSE),
      Rt("list_admin_courses_for_college", "GET",
         <<"/api/college", "/courses", "/courses">>,
         <<>>, "get_college_admin", FALSE),
      Rt("student_dashboard", "GET", <<"/api/student", "/dashboard">>,
         <<"view", "student_dashboard">>, "attribute_student", FALSE),
      Rt("list_my_courses", "GET", <<"/api/student", "/courses">>,
         <<"view", "student_courses">>, "attribute_student", FALSE),
      Rt("update_course_progress", "PATCH",
         <<"/api/student", "/courses", "/1", "/progress">>,
         <<"update", "student_courses">>, "attribute_student", TRUE) }

\* The handler registered for Exception answers what no other handler takes.
global_exception_handler(exc) ==
    JSONResponse(500, [success |-> FALSE, message |-> "Internal server error"])

\* The routes the router matches a request to, by method and path.
match(req) == {r \in Routes : r.method = req.method /\ r.path = req.path}

\* The body of the handler of route r up to the call of its service, with
\* user the value of getattr(request.state, "user", None): the service it
\* calls, or what it raises. request.state.user on a request without the
\* attribute, and user.role on a dict, raise AttributeError.
handler(r, user) ==
    CASE r.check = "none" -> Returned([service |-> r.name])
      [] r.check = "getattr_admin" ->
            IF user = None THEN HTTPException(401, "Not authenticated")
            ELSE IF user.role # "ADMIN" THEN HTTPException(403, "Admins only")
            ELSE Returned([service |-> r.name])
      [] r.check = "subscript_admin" ->
            IF user = None THEN [raised |-> "AttributeError"]
            ELSE IF user.role # "ADMIN"
            THEN HTTPException(403, "Admin access only")
            ELSE Returned([service |-> r.name])
      [] r.check = "get_college_admin" ->
            IF user = None THEN [raised |-> "AttributeError"]
            ELSE IF user.role # "COLLEGE_ADMIN"
            THEN HTTPException(403, "College admin access only")
            ELSE Returned([service |-> r.name])
      [] r.check = "service_college_admin" ->
            IF user = None THEN [raised |-> "AttributeError"]
            ELSE IF user.role # "COLLEGE_ADMIN"
            THEN HTTPException(403, "College admin access only")
            ELSE IF user.id = 0
            THEN HTTPException(401, "Invalid authentication token")
            ELSE Returned([service |-> r.name])
      [] r.check = "attribute_student" -> [raised |-> "AttributeError"]

-----------------------------------------------------------------------------
(* Credential Verifier: app/services/auth_service.py over                   *)
(* app/repositories/user_repository.py                                      *)

\* app.core.security.hash_password: an ideal one-way hash of the password.
hash_password(password) == [bcrypt |-> password]

\* app.core.security.verify_password(plain, password_hash): the supplied
\* secret matches the stored hash.
verify_password(password, password_hash) ==
    password_hash = hash_password(password)

Digit(d) ==
    CASE d = 0 -> "0" [] d = 1 -> "1" [] d = 2 -> "2" [] d = 3 -> "3"
      [] d = 4 -> "4" [] d = 5 -> "5" [] d = 6 -> "6" [] d = 7 -> "7"
      [] d = 8 -> "8" [] d = 9 -> "9"

\* str(n) for a non-negative int n: its decimal digits.
RECURSIVE str(_)
str(n) == IF n < 10 THEN <<Digit(n)>> ELSE Append(str(n \div 10), Digit(n % 10))

\* A row of users joined with its role: User(...) as student_service and
\* college_service create it, active and verified. phone is nullable:
\* <<>> for NULL, <<p>> for the value p.
User(id, email, phone, role, password) ==
    [id |-> id, email |-> email, phone |-> phone, role |-> role,
     password_hash |-> hash_password(password),
     is_active |-> TRUE, is_verified |-> TRUE]

\* get_user_for_login without the Role.name filter
get_user_for_login_any_role(users_, identifier, role_name) ==
    LET rows == {u \in users_ :
                    u.email = identifier \/ u.phone = <<identifier>>}
    IN IF rows = {} THEN None
       ELSE IF Cardinality(rows) = 1 THEN CHOOSE u \in rows : TRUE
       ELSE [raised |-> "MultipleResultsFound"]

\* UserRepository.get_user_for_login(db, identifier, role_name): the rows the
\* statement selects, then result.scalar_one_or_none().
get_user_for_login(users_, identifier, role_name) ==
    LET rows == {u \in users_ :
                    /\ u.role = role_name
                    /\ (u.email = identifier \/ u.phone = <<identifier>>)}
    IN IF rows = {} THEN None
       ELSE IF Cardinality(rows) = 1 THEN CHOOSE u \in rows : TRUE
       ELSE [raised |-> "MultipleResultsFound"]

\* role_permissions reading the permissions table rows of the role
role_permissions_from_table(role_name) ==
    LET rows == {r \in permission_rows : r.role = role_name}
    IN IF rows = {} THEN <<>>
       ELSE LET r == CHOOSE r \in rows : TRUE
            IN <<r.action \o ":" \o r.resource>>

\* AuthService.login, step 5: permissions by role name.
role_permissions(role_name) ==
    IF role_name = "ADMIN" THEN <<"admin:*">>
    ELSE IF role_name = "COLLEGE_ADMIN"
    THEN <<"view:college_dashboard", "view:students", "view:courses">>
    ELSE IF role_name = "TEACHER" THEN <<"view:courses", "create:tests">>
    ELSE IF role_name = "STUDENT" THEN <<"view:student_dashboard">>
    ELSE <<>>

\* AuthService.login(db, email, password, role) called at time t, db holding
\* the rows users_: what it returns or raises.
login(users_, email, password, role, t) ==
    LET user == get_user_for_login(users_, email, role) IN
    IF Raised(user) THEN user
    ELSE IF user = None
    THEN HTTPException(401, "Invalid credentials for selected role")
    ELSE IF ~user.is_active
    THEN HTTPException(403, "User account is inactive")
    ELSE IF ~user.is_verified
    THEN HTTPException(403, "User account is not verified")
    ELSE IF ~verify_password(password, user.password_hash)
    THEN HTTPException(401, "Invalid credentials")
    ELSE LET role_name == user.role
             permissions == role_permissions(role_name)
             access_token ==
                 create_access_token(
                     [sub |-> str(user.id), role |-> role_name,
                      permissions |-> permissions], t)
         IN Returned([access_token |-> access_token,
                      token_type |-> "bearer",
                      role |-> role_name])

-----------------------------------------------------------------------------
(* Inputs *)

\* An optional value: <<>> when absent, <<v>> when present.
Subs == {<<>>, <<"7">>, <<"1", "2">>, <<"x">>}
SubOpt == {<<>>} \cup {<<s>> : s \in Subs}
RoleOpt == {<<>>, <<"ADMIN">>, <<"admin">>, <<"STUDENT">>}
PermLists ==
    { <<>>,
      <<"edit:courses">>,
      <<"view:students", "edit:courses">>,
      <<"admin:*", "edit:*", "*:courses", "EDIT:courses", "edit:course">> }
PermOpt == {<<>>} \cup {<<p>> : p \in PermLists}

\* The dict given to create_access_token.
MkData(s, r, p) ==
    [k \in (IF s = <<>> THEN {} ELSE {"sub"})
           \cup (IF r = <<>> THEN {} ELSE {"role"})
           \cup (IF p = <<>> THEN {} ELSE {"permissions"}) |->
        CASE k = "sub" -> s[1]
          [] k = "role" -> r[1]
          [] k = "permissions" -> p[1]]

DataSet == {MkData(s, r, p) : s \in SubOpt, r \in RoleOpt, p \in PermOpt}

GuardModules == {"app.utils.decorators", "app.core.permissions"}
GuardActions == {"edit", "view"}
GuardResources == {"courses", "students"}

\* What a client without the server's secret can put together at time t.
AdminClaims(t) ==
    [sub |-> <<"7">>, role |-> "ADMIN", permissions |-> <<"admin:*">>,
     exp |-> t + TTL]

ForeignToken(t) == jwt_encode(AdminClaims(t), "attacker-secret", ALGORITHM)

UnsignedToken(t) ==
    LET header == [alg |-> "none", typ |-> "JWT"]
    IN [header |-> header, claims |-> AdminClaims(t),
        signature |-> Sign("", header, AdminClaims(t))]

\* tok with its expiry pushed back, under tok's own signature.
Tampered(tok) ==
    [tok EXCEPT !.claims = [tok.claims EXCEPT !.exp = @ + TTL]]

\* tok's claims signed with another secret.
Resigned(tok) == jwt_encode(tok.claims, "attacker-secret", ALGORITHM)

Bearer(rest) == <<Word("Bearer"), SP>> \o rest

AuthorizationValues(t) ==
    { <<>>,
      <<Word("Basic"), SP, Word("abc")>>,
      <<Word("Bearer")>>,
      <<Word("Bearer"), SP, SP>>,
      Bearer(<<Word("garbage")>>),
      Bearer(<<Jws(ForeignToken(t))>>),
      Bearer(<<Jws(UnsignedToken(t))>>) }
    \cup
    ( IF issued = None THEN {}
      ELSE LET tok == issued.token IN
           { Bearer(<<Jws(tok)>>),
             <<Word("Bearer"), SP, SP, Jws(tok), SP>>,
             <<Word("bearer"), SP, Jws(tok)>>,
             <<Jws(tok)>>,
             Bearer(<<Jws(tok), SP, Word("x")>>),
             Bearer(<<Jws(Tampered(tok))>>),
             Bearer(<<Jws(Resigned(tok))>>) } )

NoAuthorization == [Host |-> "crt"]
WithAuthorization(h) == [Host |-> "crt", Authorization |-> h]

HeaderSets(t) ==
    {NoAuthorization} \cup {WithAuthorization(h) : h \in AuthorizationValues(t)}

ProtectedTargets ==
    { [method |-> "PUT", path |-> <<"/api/admin", "/courses", "/1">>],
      [method |-> "GET", path |-> <<"/api/student", "/dashboard">>] }

ExemptTargets ==
    { [method |-> "GET", path |-> <<"/health">>],
      [method |-> "GET", path |-> <<"/health", "z">>],
      [method |-> "POST", path |-> <<"/api/auth", "/login">>],
      [method |-> "OPTIONS", path |-> <<"/api/admin", "/courses", "/1">>] }

\* The requests a client sends at time t: every header on the protected
\* targets, and on the exempt ones no header or the token it holds.
Requests(t) ==
    { [method |-> g.method, path |-> g.path, headers |-> h] :
          g \in ProtectedTargets, h \in HeaderSets(t) }
    \cup
    { [method |-> g.method, path |-> g.path, headers |-> h] :
          g \in ExemptTargets,
          h \in {NoAuthorization} \cup
                (IF issued = None THEN {}
                 ELSE {WithAuthorization(Bearer(<<Jws(issued.token)>>))}) }


\* The accounts of the database. ann and bob are two students who gave the
\* same phone number; mel has a role outside the four of the login form; ned
\* and dee are students and col and cat college administrators who gave no
\* phone number.
Accounts ==
    { User(12, "ann@x", <<"555">>, "STUDENT", "pw-a"),
      User(7, "bob@x", <<"555">>, "STUDENT", "pw-b"),
      User(1, "root@x", <<>>, "ADMIN", "pw-b"),
      User(3, "tea@x", <<>>, "TEACHER", "pw-b"),
      User(4, "cad@x", <<"777">>, "COLLEGE_ADMIN", "pw-b"),
      User(5, "mel@x", <<>>, "MENTOR", "pw-b"),
      User(13, "ned@x", <<>>, "STUDENT", "pw-b"),
      User(14, "dee@x", <<>>, "STUDENT", "pw-b"),
      User(6, "col@x", <<>>, "COLLEGE_ADMIN", "pw-b"),
      User(8, "cat@x", <<>>, "COLLEGE_ADMIN", "pw-b") }

\* The accounts whose is_active and is_verified flags change.
Administered == {12}

\* The rows that come and go in the permissions table.
GrantableRows == {[role |-> "STUDENT", action |-> "edit", resource |-> "courses"]}

\* The arguments of AuthService.login.
Identifiers == {"ann@x", "555", "root@x", "tea@x", "cad@x", "mel@x", "nobody@x"}
Passwords == {"pw-a", "pw-b"}
LoginRoles == {"ADMIN", "COLLEGE_ADMIN", "TEACHER", "STUDENT", "MENTOR"}

\* The requests the holder of the last issued token sends.
HolderRequests ==
    { [method |-> g.method, path |-> g.path, headers |-> h] :
          g \in ProtectedTargets,
          h \in {NoAuthorization} \cup
                (IF issued = None THEN {}
                 ELSE {WithAuthorization(Bearer(<<Jws(issued.token)>>))}) }

\* The connections, and the `state` objects requests can hold: one per
\* connection, and object 0, which belongs to no request.
Conns == 1..MaxInFlight
StateObjects == 0..MaxInFlight

\* A connection with no request on it.
NoConn ==
    [pc |-> "none", request |-> None, built |-> None, guard_saw |-> Unbound,
     guard |-> Unbound, handler_saw |-> Unbound, response |-> None]

\* The tokens the clients of the concurrent requests hold: those login gave
\* to ann, bob and root.
ConcTokens ==
    { login(Accounts, "ann@x", "pw-a", "STUDENT", 0).value.access_token,
      login(Accounts, "bob@x", "pw-b", "STUDENT", 0).value.access_token,
      login(Accounts, "root@x", "pw-b", "ADMIN", 0).value.access_token }

ConcRequests ==
    { [method |-> g.method, path |-> g.path, headers |-> h] :
          g \in ProtectedTargets,
          h \in {NoAuthorization} \cup
                {WithAuthorization(Bearer(<<Jws(tok)>>)) : tok \in ConcTokens} }

\* The tokens login gives to the accounts of the four roles of the login form.
WiredTokens ==
    { login(Accounts, "ann@x", "pw-a", "STUDENT", 0).value.access_token,
      login(Accounts, "root@x", "pw-b", "ADMIN", 0).value.access_token,
      login(Accounts, "cad@x", "pw-b", "COLLEGE_ADMIN", 0).value.access_token,
      login(Accounts, "tea@x", "pw-b", "TEACHER", 0).value.access_token }

\* The requests to the wired application: every registered route, the same
\* paths with OPTIONS, and a path no route has; without Authorization header
\* or with a token login issued.
WiredRequests ==
    { [method |-> m, path |-> p, headers |-> h] :
          m \in {"GET", "POST", "PUT", "PATCH", "DELETE", "OPTIONS"},
          p \in {r.path : r \in Routes} \cup {<<"/api/admin", "/nothing">>},
          h \in {NoAuthorization} \cup
                {WithAuthorization(Bearer(<<Jws(tok)>>)) : tok \in WiredTokens} }

-----------------------------------------------------------------------------
(* The college and student services over the tables of app/models/models.py *)

\* The sessions get_db gives to requests served at the same time.
MaxSessions == 2

Sessions == 1..MaxSessions

Idle == [stage |-> "idle"]

StudentRow(id, user_id, college_id, branch_id, academic_year_id, roll_number) ==
    [id |-> id, user_id |-> user_id, college_id |-> college_id,
     branch_id |-> branch_id, academic_year_id |-> academic_year_id,
     roll_number |-> roll_number]

StudentCourse(student_id, course_id, enrollment_status, progress_percentage, completion_date) ==
    [student_id |-> student_id, course_id |-> course_id,
     enrollment_status |-> enrollment_status,
     progress_percentage |-> progress_percentage,
     completion_date |-> completion_date, last_accessed_at |-> None]

\* The tables before any call: two colleges with one administrator each,
\* course 10 offered to both, course 11 to neither; students 1, 2 (branch 1,
\* year 1) and 4 (branch 3) of college 1, student 3 of college 2; student 2
\* and student 3 are enrolled in course 10 already. student_courses is in
\* insertion order, its rows numbered by autoincrement. Every student has a
\* StudentScore, and the first of each college a COLLEGE_OVERALL ranking.
InitialTables ==
    [college_admins |-> {[user_id |-> 4, college_id |-> 1],
                         [user_id |-> 6, college_id |-> 2]},
     college_courses |-> {[course_id |-> 10, college_id |-> 1, is_active |-> TRUE],
                          [course_id |-> 10, college_id |-> 2, is_active |-> TRUE],
                          [course_id |-> 11, college_id |-> 1, is_active |-> FALSE]},
     students |-> {StudentRow(1, 12, 1, 1, 1, "r1"), StudentRow(2, 7, 1, 1, 1, "r2"),
                   StudentRow(4, 14, 1, 3, 1, "r4"), StudentRow(3, 13, 2, 2, 2, "r1")},
     student_courses |-> <<StudentCourse(2, 10, "IN_PROGRESS", 50, None),
                           StudentCourse(3, 10, "ASSIGNED", 0, None)>>,
     colleges |-> {1, 2},
     courses |-> {10, 11},
     college_branches |-> {[id |-> 1, college_id |-> 1],
                           [id |-> 3, college_id |-> 1],
                           [id |-> 2, college_id |-> 2]},
     academic_years |-> {[id |-> 1, college_id |-> 1],
                         [id |-> 2, college_id |-> 2]},
     student_scores |-> {[student_id |-> 1, total_crt_score |-> 80],
                         [student_id |-> 2, total_crt_score |-> 30],
                         [student_id |-> 4, total_crt_score |-> 55],
                         [student_id |-> 3, total_crt_score |-> 75]},
     rankings |-> {[student_id |-> 1, college_id |-> 1,
                    ranking_type |-> "COLLEGE_OVERALL", rank_position |-> 1,
                    score_at_ranking |-> 80],
                   [student_id |-> 3, college_id |-> 2,
                    ranking_type |-> "COLLEGE_OVERALL", rank_position |-> 1,
                    score_at_ranking |-> 75]}]

\* The ids of a set of rows, ascending.
RECURSIVE IdsAscending(_)
IdsAscending(rows) ==
    IF rows = {} THEN <<>>
    ELSE LET least == CHOOSE r \in rows : \A q \in rows : r.id <= q.id
         IN <<least.id>> \o IdsAscending(rows \ {least})

\* student_courses without its unique constraint
uq_student_course_absent(rows) == TRUE

\* UniqueConstraint('student_id', 'course_id', name='uq_student_course'):
\* whether the table rows satisfies it.
uq_student_course(rows) ==
    \A i, j \in 1..Len(rows) :
        ( /\ rows[i].student_id = rows[j].student_id
          /\ rows[i].course_id = rows[j].course_id ) => i = j

\* Steps 1 to 3 of assign_course_to_students: the administrator's college, the
\* course offered to it, the students of the branch and year; what it raises,
\* or the college and the students' ids.
assign_select_students(t, college_admin_user, payload_) ==
    LET admins == {a \in t.college_admins : a.user_id = college_admin_user.id}
    IN IF admins = {}
       THEN HTTPException(403, "College admin not mapped to any college")
       ELSE LET college_id == (CHOOSE a \in admins : TRUE).college_id
                offered == {cc \in t.college_courses :
                               /\ cc.course_id = payload_.course_id
                               /\ cc.college_id = college_id
                               /\ cc.is_active}
                students == {st \in t.students :
                                /\ st.college_id = college_id
                                /\ st.branch_id = payload_.branch_id
                                /\ st.academic_year_id = payload_.academic_year_id}
            IN IF offered = {}
               THEN HTTPException(404, "Course not available for this college")
               ELSE IF students = {}
               THEN HTTPException(400,
                        "No students found for given branch and academic year")
               ELSE Returned([college_id |-> college_id,
                              students |-> IdsAscending(students)])

\* The rows of a student_courses table for one student and course.
enrollments(rows, student_id, course_id) ==
    {i \in 1..Len(rows) : /\ rows[i].student_id = student_id
                          /\ rows[i].course_id = course_id}

\* datetime.utcnow() at clock t
datetime_utcnow(t) == [utcnow |-> t]

\* StudentCourseService.update_course_progress at clock time `clock`, with
\* student_user an object with an id and payload_ a validated
\* StudentCourseProgressUpdate: what it returns or raises, and the tables
\* after its commit.
update_course_progress(t, student_user, course_id, payload_, clock) ==
    LET students == {st \in t.students : st.user_id = student_user.id}
        student == CHOOSE st \in students : TRUE
        found == enrollments(t.student_courses, student.id, course_id)
        k == CHOOSE i \in found : TRUE
        p == payload_.progress_percentage
        enrollment ==
            [t.student_courses[k] EXCEPT
                !.progress_percentage = p,
                !.enrollment_status = IF p >= 100 THEN "COMPLETED"
                                      ELSE IF p > 0 THEN "IN_PROGRESS"
                                      ELSE @,
                !.completion_date = IF p >= 100 THEN datetime_utcnow(clock)
                                    ELSE @,
                !.last_accessed_at = datetime_utcnow(clock)]
    IN IF students = {}
       THEN [result |-> HTTPException(404, "Student profile not found"),
             tables |-> t]
       ELSE IF found = {}
       THEN [result |-> HTTPException(404, "Course not assigned to this student"),
             tables |-> t]
       ELSE [result |-> Returned(
                 [course_id |-> course_id,
                  enrollment_status |-> enrollment.enrollment_status,
                  progress_percentage |-> enrollment.progress_percentage,
                  last_accessed_at |-> enrollment.last_accessed_at]),
             tables |-> [t EXCEPT !.student_courses[k] = enrollment]]

RECURSIVE SumScores(_)
SumScores(rows) ==
    IF rows = {} THEN 0
    ELSE LET r == CHOOSE r \in rows : TRUE
         IN r.total_crt_score + SumScores(rows \ {r})

\* round(x, 2) of the quotient sum / n, in hundredths; func.avg of no rows is
\* NULL, which `or 0.0` turns into 0.
round2(sum, n) == IF n = 0 THEN 0 ELSE (200 * sum + n) \div (2 * n)

\* func.max and func.min of a score column, `or 0.0` for no rows
max_score(rows) ==
    IF rows = {} THEN 0
    ELSE (CHOOSE r \in rows :
              \A q \in rows : q.total_crt_score <= r.total_crt_score).total_crt_score

min_score(rows) ==
    IF rows = {} THEN 0
    ELSE (CHOOSE r \in rows :
              \A q \in rows : q.total_crt_score >= r.total_crt_score).total_crt_score

\* CollegeDashboardService.get_dashboard_data: what it raises, or the figures
\* it returns; lists are given as functions of the id of their entries, and
\* rounded figures in hundredths. course_score is written by none of the
\* services, so its average is that of NULLs.
get_dashboard_data(t, user) ==
    LET admins == {a \in t.college_admins : a.user_id = user.id}
        college_id == (CHOOSE a \in admins : TRUE).college_id
        rows == t.student_courses
        of_college == {st \in t.students : st.college_id = college_id}
        in_branch(b) == {st \in t.students : st.branch_id = b}
        scores(students) ==
            {sc \in t.student_scores :
                 \E st \in students : st.id = sc.student_id}
        joined(students) ==
            {i \in 1..Len(rows) :
                 \E st \in students : st.id = rows[i].student_id}
        completed(ix) == {i \in ix : rows[i].enrollment_status = "COMPLETED"}
        of_course(c) == {i \in 1..Len(rows) : rows[i].course_id = c}
        college_info ==
            [college_id |-> college_id,
             total_students |-> Cardinality(of_college),
             total_branches |->
                 Cardinality({b \in t.college_branches : b.college_id = college_id}),
             total_courses |-> Cardinality(t.courses)]
        academic_years ==
            [y \in {a.id : a \in {a \in t.academic_years :
                                       a.college_id = college_id}} |->
                [students_count |->
                     Cardinality({st \in t.students : st.academic_year_id = y})]]
        branches ==
            [b \in {br.id : br \in {br \in t.college_branches :
                                        br.college_id = college_id}} |->
                [total_students |-> Cardinality(in_branch(b)),
                 average_crt_score |->
                     round2(SumScores(scores(in_branch(b))),
                            Cardinality(scores(in_branch(b)))),
                 average_course_completion |->
                     round2(Cardinality(completed(joined(in_branch(b)))) * 100,
                            Cardinality(joined(in_branch(b))))]]
        courses_allocated ==
            [c \in t.courses |->
                [students_assigned |-> Cardinality(of_course(c)),
                 students_completed |-> Cardinality(completed(of_course(c))),
                 average_course_score |-> 0]]
        top_students ==
            {[student_id |-> rk.student_id, crt_score |-> rk.score_at_ranking,
              college_rank |-> rk.rank_position] :
                 rk \in {rk \in t.rankings :
                            /\ rk.college_id = college_id
                            /\ rk.ranking_type = "COLLEGE_OVERALL"
                            /\ \E st \in t.students : st.id = rk.student_id}}
        students_overview ==
            [sid \in {st.id : st \in of_college} |->
                LET mine == {i \in 1..Len(rows) : rows[i].student_id = sid}
                IN [courses_assigned |-> Cardinality(mine),
                    courses_completed |-> Cardinality(completed(mine)),
                    course_completion_percentage |->
                        round2(Cardinality(completed(mine)) * 100,
                               Cardinality(mine))]]
        performance_summary ==
            [average_crt_score |->
                 round2(SumScores(scores(of_college)),
                        Cardinality(scores(of_college))),
             highest_crt_score |-> max_score(scores(of_college)),
             lowest_crt_score |-> min_score(scores(of_college)),
             students_above_70_percent |->
                 Cardinality({sc \in t.student_scores : sc.total_crt_score >= 70}),
             students_below_40_percent |->
                 Cardinality({sc \in t.student_scores : sc.total_crt_score < 40})]
    IN IF user.role # "COLLEGE_ADMIN"
       THEN HTTPException(403, "College admin access only")
       ELSE IF user.id = 0
       THEN HTTPException(401, "Invalid authentication token")
       ELSE IF admins = {}
       THEN HTTPException(403, "College admin is not assigned to any college")
       ELSE IF college_id \notin t.colleges
       THEN HTTPException(404, "College not found")
       ELSE Returned([college_info |-> college_info,
                      academic_years |-> academic_years,
                      branches |-> branches,
                      courses_allocated |-> courses_allocated,
                      top_students |-> top_students,
                      students_overview |-> students_overview,
                      performance_summary |-> performance_summary])

\* The rows of the uploaded sheets.
MaxRows == 3

\* f"STU-{college_id}-{row['roll_number']}"
student_unique_id(college_id, roll_number) == <<"STU-", college_id, "-", roll_number>>

\* The next value of an autoincrement id column holding ids.
next_id(ids) == IF ids = {} THEN 1 ELSE 1 + (CHOOSE i \in ids : \A j \in ids : j <= i)

\* The loop of bulk_upload_students from row k of df on. acc is the state of
\* the session: the users, students and scores flushed or added in the open
\* transaction, success_count and failed_rows. A flush that meets
\* uq_user_email or uq_student_unique_id raises IntegrityError, and
\* db.rollback() then ends the transaction, undoing everything flushed in it.
RECURSIVE bulk_upload_rows(_, _, _, _, _, _)
bulk_upload_rows(users_, t, college_id, df, k, acc) ==
    IF k > Len(df) THEN acc
    ELSE LET row == df[k]
             user == User(next_id({u.id : u \in users_ \cup acc.users}),
                          row.email, <<row.phone>>, "STUDENT", row.password)
             student ==
                 StudentRow(next_id({st.id : st \in t.students \cup acc.students}),
                            user.id, college_id, row.branch_id,
                            row.academic_year_id, row.roll_number)
             email_taken == \E u \in users_ \cup acc.users : u.email = row.email
             unique_id_taken ==
                 \E st \in t.students \cup acc.students :
                     student_unique_id(st.college_id, st.roll_number)
                         = student_unique_id(college_id, row.roll_number)
             rolled_back ==
                 [acc EXCEPT
                    !.users = {}, !.students = {}, !.scores = {},
                    !.failed_rows = Append(@,
                        [row |-> (k - 1) + 2, email |-> row.email,
                         reason |-> "Duplicate email / roll number"])]
             added ==
                 [acc EXCEPT
                    !.users = @ \cup {user},
                    !.students = @ \cup {student},
                    !.scores = @ \cup {[student_id |-> student.id,
                                        total_crt_score |-> 0]},
                    !.success_count = @ + 1]
         IN bulk_upload_rows(users_, t, college_id, df, k + 1,
                IF email_taken \/ unique_id_taken THEN rolled_back ELSE added)

\* CollegeStudentService.bulk_upload_students: what it returns or raises, and
\* the users table and the other tables after it.
bulk_upload_students(users_, t, college_admin_user, file) ==
    LET admins == {a \in t.college_admins : a.user_id = college_admin_user.id}
        college_id == (CHOOSE a \in admins : TRUE).college_id
        required_columns == {"name", "email", "roll_number", "phone",
                             "academic_year_id", "branch_id", "password"}
        acc == bulk_upload_rows(users_, t, college_id, file.df, 1,
                   [users |-> {}, students |-> {}, scores |-> {},
                    success_count |-> 0, failed_rows |-> <<>>])
    IN IF admins = {}
       THEN [result |-> HTTPException(403, "College admin not mapped to any college"),
             users |-> users_, tables |-> t]
       ELSE IF file.extension \notin {".xlsx", ".csv"}
       THEN [result |-> HTTPException(400, "Only Excel or CSV files supported"),
             users |-> users_, tables |-> t]
       ELSE IF ~(required_columns \subseteq file.columns)
       THEN [result |-> HTTPException(400, "Missing columns"),
             users |-> users_, tables |-> t]
       ELSE [result |-> Returned(
                 [message |-> "Bulk upload completed",
                  total_records |-> Len(file.df),
                  successfully_created |-> acc.success_count,
                  failed_records |-> acc.failed_rows]),
             users |-> users_ \cup acc.users,
             tables |-> [t EXCEPT
                           !.students = @ \cup acc.students,
                           !.student_scores = @ \cup acc.scores]]

\* The callers and the payloads of the service calls.
ServiceUsers ==
    {[id |-> 4, role |-> "COLLEGE_ADMIN"], [id |-> 6, role |-> "COLLEGE_ADMIN"],
     [id |-> 8, role |-> "COLLEGE_ADMIN"]}

\* The students calling update_course_progress: users 7 and 13 have a student
\* profile, user 99 has none.
StudentUsers == {[id |-> 7], [id |-> 13], [id |-> 99]}

\* progress_percentage: float = Field(..., ge=0, le=100)
ProgressPayloads == {[progress_percentage |-> p] : p \in {0, 50, 100}}

\* The callers of the college dashboard.
DashboardUsers == ServiceUsers \cup {[id |-> 1, role |-> "ADMIN"]}

\* The rows of an uploaded sheet: two new students with the same roll
\* number, and a row with the email of an account.
SheetRow(email, roll_number) ==
    [name |-> "n", email |-> email, roll_number |-> roll_number,
     phone |-> "900", academic_year_id |-> 1, branch_id |-> 1,
     password |-> "pw-b"]

SheetRows ==
    {SheetRow("new1@x", "r7"), SheetRow("new2@x", "r7"), SheetRow("ann@x", "r8")}

\* The callers of the upload: the administrator of college 1 and one that no
\* college has.
UploadUsers == {u \in ServiceUsers : u.id \in {4, 8}}

SheetColumns ==
    {"name", "email", "roll_number", "phone", "academic_year_id", "branch_id",
     "password"}

\* The uploads: sheets of up to MaxRows rows, a file of another kind and a
\* sheet that lacks a column.
Uploads ==
    {[extension |-> ".csv", columns |-> SheetColumns, df |-> df] :
         df \in UNION {[1..n -> SheetRows] : n \in 0..MaxRows}}
    \cup {[extension |-> ".pdf", columns |-> SheetColumns, df |-> <<>>],
          [extension |-> ".xlsx", columns |-> SheetColumns \ {"phone"},
           df |-> <<>>]}

AssignPayloads ==
    {[course_id |-> 10, branch_id |-> 1, academic_year_id |-> 1],
     [course_id |-> 10, branch_id |-> 2, academic_year_id |-> 2],
     [course_id |-> 11, branch_id |-> 1, academic_year_id |-> 1]}

-----------------------------------------------------------------------------
(* The state machine *)

Init ==
    /\ now = 0
    /\ issued = None
    /\ pc = "idle"
    /\ request = None
    /\ payload = Unbound
    /\ state_user = None
    /\ called_next = FALSE
    /\ route = None
    /\ guard = Unbound
    /\ handler_called = FALSE
    /\ response = None
    /\ users = Accounts
    /\ permission_rows = {}
    /\ login_call = None
    /\ conn = [r \in Conns |-> NoConn]
    /\ state_store = [o \in StateObjects |-> None]
    /\ service_call = None
    /\ college_active = TRUE
    /\ tables = InitialTables
    /\ calls = [c \in Sessions |-> Idle]
    /\ last_call = None

accountVars == <<users, permission_rows, login_call>>

concVars == <<conn, state_store>>

wiredVars == <<service_call, college_active>>

serviceVars == <<tables, calls, last_call>>

requestVars == <<pc, request, payload, state_user, called_next, route, guard,
                 handler_called, response>>

\* Time passes. The only reader of the clock is dispatch, which is one step,
\* so the clock is let to move between requests only.
Tick ==
    /\ pc = "idle"
    /\ \E t \in Times : t > now /\ now' = t
    /\ UNCHANGED <<issued, requestVars, accountVars>>
    /\ UNCHANGED <<concVars, wiredVars, serviceVars>>

\* A caller of create_access_token(data) gets a token.
CreateToken(data) ==
    /\ pc = "idle"
    /\ issued' = [data |-> data, token |-> create_access_token(data, now)]
    /\ UNCHANGED <<now, requestVars, accountVars>>
    /\ UNCHANGED <<concVars, wiredVars, serviceVars>>

\* A request enters AuthMiddleware.dispatch.
Dispatch(req) ==
    /\ pc = "idle"
    /\ LET out == dispatch(req, now) IN
        /\ request' = req
        /\ payload' = out.payload
        /\ state_user' = out.user
        /\ called_next' = out.call_next
        /\ response' = out.response
        /\ pc' = IF out.call_next THEN "routing" ELSE "done"
    /\ UNCHANGED <<now, issued, route, guard, handler_called, accountVars>>
    /\ UNCHANGED <<concVars, wiredVars, serviceVars>>

\* The request passed downstream reaches a route whose dependency is
\* require_permission(action, resource); the handler runs if the guard returns.
Guard(module, action, resource) ==
    /\ pc = "routing"
    /\ LET res == require_permission(module, state_user, action, resource) IN
        /\ route' = [module |-> module, action |-> action, resource |-> resource]
        /\ guard' = res
        /\ handler_called' = ~Raised(res)
        /\ response' = IF Raised(res) THEN http_exception_handler(res) ELSE None
    /\ pc' = "done"
    /\ UNCHANGED <<now, issued, request, payload, state_user, called_next,
                   accountVars>>
    /\ UNCHANGED <<concVars, wiredVars, serviceVars>>

\* GET /health reaches health_check, a route with no guard.
HealthCheck ==
    /\ pc = "routing"
    /\ request.method = "GET" /\ request.path = <<"/health">>
    /\ handler_called' = TRUE
    /\ response' = health_check
    /\ pc' = "done"
    /\ UNCHANGED <<now, issued, request, payload, state_user, called_next,
                   route, guard, accountVars>>
    /\ UNCHANGED <<concVars, wiredVars, serviceVars>>

\* The request ends: request.state is discarded.
Finish ==
    /\ pc = "done"
    /\ pc' = "idle"
    /\ request' = None
    /\ payload' = Unbound
    /\ state_user' = None
    /\ called_next' = FALSE
    /\ route' = None
    /\ guard' = Unbound
    /\ handler_called' = FALSE
    /\ response' = None
    /\ login_call' = None
    /\ service_call' = None
    /\ UNCHANGED <<now, issued, users, permission_rows, college_active>>
    /\ UNCHANGED <<concVars, serviceVars>>

Next ==
    \/ Tick
    \/ \E data \in DataSet : CreateToken(data)
    \/ \E req \in Requests(now) : Dispatch(req)
    \/ \E m \in GuardModules, a \in GuardActions, r \in GuardResources :
           Guard(m, a, r)
    \/ HealthCheck
    \/ Finish

Spec == Init /\ [][Next]_vars

-----------------------------------------------------------------------------
(* The state machine of the accounts: logins, the database, and the requests *)
(* of the holder of the issued token                                        *)

\* The database administration flips users.is_active of an account.
ToggleActive(id) ==
    /\ login_call = None
    /\ users' = {IF u.id = id THEN [u EXCEPT !.is_active = ~@] ELSE u :
                     u \in users}
    /\ UNCHANGED <<now, issued, requestVars, permission_rows, login_call>>
    /\ UNCHANGED <<concVars, wiredVars, serviceVars>>

\* The database administration flips users.is_verified of an account.
ToggleVerified(id) ==
    /\ login_call = None
    /\ users' = {IF u.id = id THEN [u EXCEPT !.is_verified = ~@] ELSE u :
                     u \in users}
    /\ UNCHANGED <<now, issued, requestVars, permission_rows, login_call>>
    /\ UNCHANGED <<concVars, wiredVars, serviceVars>>

\* A row of the permissions table is inserted or deleted.
TogglePermissionRow(row) ==
    /\ login_call = None
    /\ permission_rows' = IF row \in permission_rows
                          THEN permission_rows \ {row}
                          ELSE permission_rows \cup {row}
    /\ UNCHANGED <<now, issued, requestVars, users, login_call>>
    /\ UNCHANGED <<concVars, wiredVars, serviceVars>>

\* The database administration moves an account to another role
\* (users.role_id): a student becomes a teacher, or the reverse.
ChangeRole(id) ==
    /\ login_call = None
    /\ users' = {IF u.id = id
                 THEN [u EXCEPT !.role = IF @ = "STUDENT" THEN "TEACHER"
                                         ELSE "STUDENT"]
                 ELSE u : u \in users}
    /\ UNCHANGED <<now, issued, requestVars, permission_rows, login_call>>
    /\ UNCHANGED <<concVars, wiredVars, serviceVars>>

\* AuthService.login(db, email, password, role) runs to its return or raise;
\* the client takes the token it made, or goes on with the one it holds.
Login(email, password, role) ==
    /\ pc = "idle"
    /\ LET res == login(users, email, password, role, now) IN
        /\ login_call' = [email |-> email, password |-> password,
                          role |-> role, result |-> res]
        /\ \/ issued' = issued
           \/ /\ ~Raised(res)
              /\ issued' =
                     LET tok == res.value.access_token IN
                     [data |-> [k \in {"sub", "role", "permissions"} |->
                                   tok.claims[k]],
                      token |-> tok]
    /\ pc' = "done"
    /\ UNCHANGED <<now, request, payload, state_user, called_next, route,
                   guard, handler_called, response, users, permission_rows>>
    /\ UNCHANGED <<concVars, wiredVars, serviceVars>>

NextAccounts ==
    \/ Tick
    \/ \E id \in Administered : ToggleActive(id)
    \/ \E id \in Administered : ToggleVerified(id)
    \/ \E id \in Administered : ChangeRole(id)
    \/ \E row \in GrantableRows : TogglePermissionRow(row)
    \/ \E e \in Identifiers, p \in Passwords, r \in LoginRoles : Login(e, p, r)
    \/ \E req \in HolderRequests : Dispatch(req)
    \/ \E m \in GuardModules, a \in GuardActions, r \in GuardResources :
           Guard(m, a, r)
    \/ Finish

SpecAccounts == Init /\ [][NextAccounts]_vars

-----------------------------------------------------------------------------
(* The state machine of concurrent requests: each connection carries one    *)
(* request through the gate, the guard and the handler; the steps of        *)
(* different requests interleave at every await                             *)

ConnArrive(r, req) ==
    /\ conn[r].pc = "none"
    /\ conn' = [conn EXCEPT ![r] = [NoConn EXCEPT !.pc = "arrived",
                                                  !.request = req]]
    /\ UNCHANGED <<now, issued, requestVars, accountVars, state_store,
                   wiredVars, serviceVars>>

\* AuthMiddleware.dispatch up to `await call_next(request)`.
ConnGate(r) ==
    /\ conn[r].pc = "arrived"
    /\ LET out == dispatch(conn[r].request, now) IN
        IF out.call_next
        THEN /\ state_store' =
                    IF out.user = None THEN state_store
                    ELSE [state_store EXCEPT ![request_state(r)] = out.user]
             /\ conn' = [conn EXCEPT ![r].pc = "routing",
                                     ![r].built = out.user]
        ELSE /\ conn' = [conn EXCEPT ![r].pc = "done",
                                     ![r].response = out.response]
             /\ UNCHANGED state_store
    /\ UNCHANGED <<now, issued, requestVars, accountVars, wiredVars,
                   serviceVars>>

\* permission_checker(request) of the route the request reached.
ConnGuard(r) ==
    /\ conn[r].pc = "routing"
    /\ LET user == state_store[request_state(r)]
           g == route_guard(conn[r].request)
           res == permission_checker(user, g.action, g.resource)
       IN conn' = [conn EXCEPT
                      ![r].guard_saw = user,
                      ![r].guard = res,
                      ![r].pc = IF Raised(res) THEN "done" ELSE "handling",
                      ![r].response = IF Raised(res)
                                      THEN http_exception_handler(res)
                                      ELSE None]
    /\ UNCHANGED <<now, issued, requestVars, accountVars, state_store,
                   wiredVars, serviceVars>>

\* The route's handler: user = request.state.user.
ConnHandler(r) ==
    /\ conn[r].pc = "handling"
    /\ conn' = [conn EXCEPT
                    ![r].handler_saw = state_store[request_state(r)],
                    ![r].pc = "done",
                    ![r].response = JSONResponse(200, [success |-> TRUE])]
    /\ UNCHANGED <<now, issued, requestVars, accountVars, state_store,
                   wiredVars, serviceVars>>

\* The response is sent; the request and its state object are discarded.
ConnClose(r) ==
    /\ conn[r].pc = "done"
    /\ conn' = [conn EXCEPT ![r] = NoConn]
    /\ state_store' = [state_store EXCEPT ![request_state(r)] = None]
    /\ UNCHANGED <<now, issued, requestVars, accountVars, wiredVars,
                   serviceVars>>

NextConcurrent ==
    \/ \E r \in Conns, req \in ConcRequests : ConnArrive(r, req)
    \/ \E r \in Conns : ConnGate(r)
    \/ \E r \in Conns : ConnGuard(r)
    \/ \E r \in Conns : ConnHandler(r)
    \/ \E r \in Conns : ConnClose(r)

SpecConcurrent == Init /\ [][NextConcurrent]_vars

-----------------------------------------------------------------------------
(* The state machine of the wired application: AuthMiddleware is the        *)
(* outermost middleware, the router comes after it                          *)

\* The request the gate passed reaches the router: no route, or the matched
\* route's dependencies (its guard) and then its handler, which calls the
\* service. delete_college's service sets colleges.is_active to False, and
\* update_college's sets the fields of its payload, here is_active to True.
Route ==
    /\ pc = "routing"
    /\ IF match(request) = {}
       THEN /\ response' =
                   IF \E r \in Routes : r.path = request.path
                   THEN JSONResponse(405, [success |-> FALSE,
                                           message |-> "Method Not Allowed"])
                   ELSE JSONResponse(404, [success |-> FALSE,
                                           message |-> "Not Found"])
            /\ UNCHANGED <<route, guard, handler_called, service_call,
                           college_active>>
       ELSE LET r == CHOOSE r \in match(request) : TRUE
                g == IF r.guard = <<>> THEN Unbound
                     ELSE permission_checker(state_user, r.guard[1], r.guard[2])
                ran == ~Raised(g)
                res == IF ran THEN handler(r, state_user) ELSE g
            IN /\ route' = [module |-> "app.utils.decorators",
                            action |-> IF r.guard = <<>> THEN "" ELSE r.guard[1],
                            resource |-> IF r.guard = <<>> THEN "" ELSE r.guard[2],
                            name |-> r.name, changes |-> r.changes]
               /\ guard' = g
               /\ handler_called' = ran
               /\ service_call' = IF Raised(res) THEN None ELSE res.value
               /\ college_active' =
                      IF ~Raised(res) /\ res.value.service = "delete_college"
                      THEN FALSE
                      ELSE IF ~Raised(res) /\ res.value.service = "update_college"
                      THEN TRUE ELSE college_active
               /\ response' =
                      IF ~Raised(res) THEN JSONResponse(200, [success |-> TRUE])
                      ELSE IF res.raised = "HTTPException"
                      THEN http_exception_handler(res)
                      ELSE global_exception_handler(res.raised)
    /\ pc' = "done"
    /\ UNCHANGED <<now, issued, request, payload, state_user, called_next,
                   accountVars, concVars, serviceVars>>

NextWired ==
    \/ \E req \in WiredRequests : Dispatch(req)
    \/ Route
    \/ Finish

SpecWired == Init /\ [][NextWired]_vars

-----------------------------------------------------------------------------
(* The enrollments as students report progress                              *)

UpdateCourseProgress(student_user, course_id, payload_) ==
    /\ LET res == update_course_progress(tables, student_user, course_id,
                                          payload_, now)
       IN /\ tables' = res.tables
          /\ last_call' = [service |-> "update_course_progress",
                           user |-> student_user, course_id |-> course_id,
                           payload |-> payload_, result |-> res.result]
    /\ UNCHANGED <<now, issued, requestVars, accountVars, concVars, wiredVars,
                   calls>>

GetDashboardData(user) ==
    /\ last_call' = [service |-> "get_dashboard_data", user |-> user,
                     result |-> get_dashboard_data(tables, user)]
    /\ UNCHANGED <<now, issued, requestVars, accountVars, concVars, wiredVars,
                   tables, calls>>

NextEnrollment ==
    \/ \E u \in StudentUsers, c \in {10, 11}, p \in ProgressPayloads :
           UpdateCourseProgress(u, c, p)
    \/ \E u \in DashboardUsers : GetDashboardData(u)

SpecEnrollment == Init /\ [][NextEnrollment]_vars

-----------------------------------------------------------------------------
(* Student onboarding by bulk upload                                        *)

BulkUploadStudents(college_admin_user, file) ==
    /\ LET res == bulk_upload_students(users, tables, college_admin_user, file)
       IN /\ users' = res.users
          /\ tables' = res.tables
          /\ last_call' = [service |-> "bulk_upload_students",
                           user |-> college_admin_user, file |-> file,
                           result |-> res.result,
                           persisted |-> Cardinality(res.tables.students)
                                           - Cardinality(tables.students)]
    /\ UNCHANGED <<now, issued, requestVars, permission_rows, login_call,
                   concVars, wiredVars, calls>>

NextUpload ==
    \E u \in UploadUsers, file \in Uploads : BulkUploadStudents(u, file)

SpecUpload == Init /\ [][NextUpload]_vars

-----------------------------------------------------------------------------
(* Course assignment by requests served at the same time, each with its     *)
(* own database session and transaction                                     *)

\* Session c starts assign_course_to_students: steps 1 to 3. Its transaction
\* begins with the first select, whose snapshot a REPEATABLE READ transaction
\* keeps reading.
AssignBegin(c, college_admin_user, payload_) ==
    /\ calls[c] = Idle
    /\ LET sel == assign_select_students(tables, college_admin_user, payload_)
       IN calls' = [calls EXCEPT ![c] =
              IF Raised(sel)
              THEN [stage |-> "returned", user |-> college_admin_user,
                    payload |-> payload_, result |-> sel, created |-> <<>>,
                    snapshot |-> tables.student_courses]
              ELSE [stage |-> "loop", user |-> college_admin_user,
                    payload |-> payload_, college_id |-> sel.value.college_id,
                    students |-> sel.value.students, i |-> 1,
                    pending |-> <<>>, assigned_count |-> 0,
                    snapshot |-> tables.student_courses]]
    /\ UNCHANGED <<now, issued, requestVars, accountVars, concVars, wiredVars,
                   tables, last_call>>

\* One turn of the loop of step 4 in session c: the select for the student
\* sees the committed rows (READ COMMITTED) or the snapshot (REPEATABLE
\* READ), and the session's own additions; no row, and it adds one.
AssignStudent(c) ==
    /\ calls[c].stage = "loop"
    /\ calls[c].i <= Len(calls[c].students)
    /\ \E view \in {calls[c].snapshot, tables.student_courses} :
          LET call == calls[c]
              student_id == call.students[call.i]
              found == enrollments(view \o call.pending, student_id,
                                   call.payload.course_id)
          IN calls' = [calls EXCEPT ![c] =
                 IF Cardinality(found) > 1
                 THEN [stage |-> "returned", user |-> call.user,
                       payload |-> call.payload,
                       result |-> [raised |-> "MultipleResultsFound"],
                       created |-> <<>>, snapshot |-> call.snapshot]
                 ELSE IF found # {}
                 THEN [call EXCEPT !.i = @ + 1]
                 ELSE [call EXCEPT
                         !.i = @ + 1,
                         !.pending = Append(@,
                             StudentCourse(student_id, call.payload.course_id,
                                           "ASSIGNED", 0, None)),
                         !.assigned_count = @ + 1]]
    /\ UNCHANGED <<now, issued, requestVars, accountVars, concVars, wiredVars,
                   tables, last_call>>

\* db.commit() in session c: the INSERTs meet the unique constraint of the
\* table as committed by then; IntegrityError rolls the transaction back.
AssignCommit(c) ==
    /\ calls[c].stage = "loop"
    /\ calls[c].i > Len(calls[c].students)
    /\ LET call == calls[c]
           rows == tables.student_courses \o call.pending
       IN IF uq_student_course(rows)
          THEN /\ tables' = [tables EXCEPT !.student_courses = rows]
               /\ calls' = [calls EXCEPT ![c] =
                      [stage |-> "returned", user |-> call.user,
                       payload |-> call.payload,
                       result |-> Returned(
                           [course_id |-> call.payload.course_id,
                            branch_id |-> call.payload.branch_id,
                            academic_year_id |-> call.payload.academic_year_id,
                            students_assigned |-> call.assigned_count]),
                       created |-> call.pending, snapshot |-> call.snapshot]]
          ELSE /\ tables' = tables
               /\ calls' = [calls EXCEPT ![c] =
                      [stage |-> "returned", user |-> call.user,
                       payload |-> call.payload,
                       result |-> [raised |-> "IntegrityError"],
                       created |-> <<>>, snapshot |-> call.snapshot]]
    /\ UNCHANGED <<now, issued, requestVars, accountVars, concVars, wiredVars,
                   last_call>>

\* The request of session c is answered and the session closed.
AssignClose(c) ==
    /\ calls[c].stage = "returned"
    /\ calls' = [calls EXCEPT ![c] = Idle]
    /\ UNCHANGED <<now, issued, requestVars, accountVars, concVars, wiredVars,
                   tables, last_call>>

NextAssign ==
    \/ \E c \in Sessions, u \in ServiceUsers, p \in AssignPayloads :
           AssignBegin(c, u, p)
    \/ \E c \in Sessions : AssignStudent(c)
    \/ \E c \in Sessions : AssignCommit(c)
    \/ \E c \in Sessions : AssignClose(c)

SpecAssign == Init /\ [][NextAssign]_vars

-----------------------------------------------------------------------------
(* Properties *)

\* The request in flight is one the gate does not exempt.
ProtectedRequest ==
    /\ request # None
    /\ [method |-> request.method, path |-> request.path] \in ProtectedTargets

\* The guard of the matched route ran on an Identity Context.
GuardRanOn(user) == guard # Unbound /\ state_user # None /\ state_user = user

\* The permission the route's guard requires is literally in the context's list.
HoldsRequired ==
    \E i \in 1..Len(state_user.permissions) :
        state_user.permissions[i] = route.action \o ":" \o route.resource

GuardAllowed == guard = Returned(TRUE) /\ handler_called /\ response = None

GuardForbade ==
    /\ Raised(guard) /\ guard.status_code = 403
    /\ response.status_code = 403
    /\ ~handler_called

\* C1: for an Identity Context whose role is not ADMIN, the guard
\* require_permission(action, resource) allows the request iff the string
\* action:resource is an element of the permission list by exact equality, and
\* answers 403 otherwise; wildcard, prefix and other-case entries grant nothing.
C1_ExactPermissionMatch ==
    (guard # Unbound /\ state_user # None /\ state_user.role # "ADMIN") =>
        /\ HoldsRequired => GuardAllowed
        /\ ~HoldsRequired => GuardForbade

C1_Witness ==
    /\ guard # Unbound /\ state_user # None
    /\ state_user.role = "STUDENT"
    /\ state_user.permissions =
           <<"admin:*", "edit:*", "*:courses", "EDIT:courses", "edit:course">>
    /\ route.action = "edit" /\ route.resource = "courses"
    /\ GuardForbade

\* C2: for an Identity Context whose role is ADMIN the guard allows the request
\* whatever the permission list holds; a STUDENT context without edit:courses
\* gets 403 from the guard require_permission("edit", "courses").
C2_AdminBypass ==
    (guard # Unbound /\ state_user # None) =>
        /\ state_user.role = "ADMIN" => GuardAllowed
        /\ ( /\ state_user.role = "STUDENT"
             /\ route.action = "edit" /\ route.resource = "courses"
             /\ ~HoldsRequired ) => GuardForbade

C2_Witness ==
    /\ guard # Unbound /\ state_user # None
    /\ state_user.role = "ADMIN"
    /\ state_user.permissions = <<>>
    /\ route.action = "edit" /\ route.resource = "courses"
    /\ GuardAllowed

\* The tokens a request of the model carries.
SentTokens ==
    {ForeignToken(now), UnsignedToken(now)}
    \cup (IF issued = None THEN {}
          ELSE {issued.token, Tampered(issued.token), Resigned(issued.token)})

\* The protected request in flight presents tok as its bearer credential.
Sends(tok) ==
    /\ ProtectedRequest
    /\ "Authorization" \in DOMAIN request.headers
    /\ request.headers.Authorization \in
           {Bearer(<<Jws(tok)>>), <<Word("Bearer"), SP, SP, Jws(tok), SP>>}

\* The protected request in flight presents a bearer credential that is no
\* serialized token.
SendsMalformed ==
    /\ ProtectedRequest
    /\ "Authorization" \in DOMAIN request.headers
    /\ \/ request.headers.Authorization = Bearer(<<Word("garbage")>>)
       \/ /\ issued # None
          /\ request.headers.Authorization =
                 Bearer(<<Jws(issued.token), SP, Word("x")>>)

\* tok carries the server's HS256 signature over the claims it shows.
GenuineSignature(tok) ==
    /\ tok.header.alg = "HS256"
    /\ tok.signature.key = "server-secret"
    /\ tok.signature.header = tok.header
    /\ tok.signature.claims = tok.claims

\* The clock is past tok's exp claim.
Expired(tok) == "exp" \in DOMAIN tok.claims /\ now > tok.claims.exp

Rejected401 ==
    /\ response # None /\ response.status_code = 401
    /\ state_user = None
    /\ ~called_next
    /\ ~handler_called

\* C3: a request to a non-exempt path whose bearer token fails validation
\* (invalid signature, malformed, or expired) is answered 401, gets no
\* Identity Context, and the downstream handler is never invoked.
C3_InvalidTokenRejected ==
    ( \/ SendsMalformed
      \/ \E tok \in SentTokens :
             Sends(tok) /\ (~GenuineSignature(tok) \/ Expired(tok)) )
    => Rejected401

C3_Witness ==
    /\ SendsMalformed
    /\ request.headers.Authorization = Bearer(<<Word("garbage")>>)
    /\ payload = None
    /\ Rejected401

C5_ExpiredTokenFails ==
    \A tok \in SentTokens : (Sends(tok) /\ Expired(tok)) => payload = None

C5_Witness ==
    /\ issued # None
    /\ Sends(issued.token)
    /\ GenuineSignature(issued.token)
    /\ now = issued.token.claims.exp + 1
    /\ payload = None

\* C6: decode_access_token returns None for every token signed with a secret
\* other than SECRET_KEY, whatever its claims, and the gate builds no Identity
\* Context from it.
C6_ForeignSecretFails ==
    \A tok \in SentTokens :
        (Sends(tok) /\ tok.signature.key # "server-secret")
        => (payload = None /\ state_user = None)

C6_Witness ==
    /\ issued # None
    /\ Sends(Resigned(issued.token))
    /\ ~Expired(issued.token)
    /\ issued.data = [sub |-> <<"7">>, role |-> "ADMIN"]
    /\ payload = None /\ state_user = None

\* C7: decode_access_token never raises: its result is None, or the full
\* claims of a token that carries the server's signature and is not expired;
\* nothing is returned from a token that failed validation.
C7_DecodeTotal ==
    payload # Unbound =>
        /\ ~Raised(payload)
        /\ \/ payload = None
           \/ \E tok \in SentTokens :
                  /\ Sends(tok)
                  /\ GenuineSignature(tok) /\ ~Expired(tok)
                  /\ payload = tok.claims

C7_Witness ==
    /\ issued # None
    /\ Sends(Tampered(issued.token))
    /\ payload = None

\* C8: a non-OPTIONS request to a path outside the public allow-list with no
\* Authorization header, or an empty one, is answered 401 with the reason
\* 'Authorization header missing' and the downstream handler is not invoked.
C8_MissingHeader ==
    ( /\ ProtectedRequest
      /\ \/ "Authorization" \notin DOMAIN request.headers
         \/ request.headers.Authorization = <<>> )
    => /\ response =
              JSONResponse(401, [detail |-> "Authorization header missing"])
       /\ ~called_next /\ ~handler_called /\ state_user = None

C8_Witness ==
    /\ ProtectedRequest
    /\ request.headers = NoAuthorization
    /\ response = JSONResponse(401, [detail |-> "Authorization header missing"])
    /\ ~called_next

\* C9: a non-OPTIONS request to a path outside the public allow-list whose
\* Authorization header is present (not empty) with a scheme other than
\* Bearer is answered 401 with the reason 'Invalid authorization format' and
\* the downstream handler is not invoked.
C9_WrongScheme ==
    ( /\ ProtectedRequest
      /\ "Authorization" \in DOMAIN request.headers
      /\ request.headers.Authorization # <<>>
      /\ ~( /\ request.headers.Authorization[1].t = "word"
            /\ request.headers.Authorization[1].v = "Bearer" ) )
    => /\ response =
              JSONResponse(401, [detail |-> "Invalid authorization format"])
       /\ ~called_next /\ ~handler_called /\ state_user = None

C9_Witness ==
    /\ ProtectedRequest
    /\ request.headers = WithAuthorization(<<Word("Basic"), SP, Word("abc")>>)
    /\ response = JSONResponse(401, [detail |-> "Invalid authorization format"])
    /\ ~called_next

\* The number a sub claim of the model denotes.
SubNumber(s) == CASE s = <<"7">> -> 7 [] s = <<"1", "2">> -> 12 [] OTHER -> -1

\* C10: when the gate accepts a token, the Identity Context it attaches is
\* exactly {id: the sub claim as an integer, role: the role claim or 'USER'
\* when absent, permissions: the permissions claim or the empty list when
\* absent}, all taken from the token the request carries.
C10_IdentityContext ==
    state_user # None =>
        \E tok \in SentTokens :
            /\ Sends(tok)
            /\ "sub" \in DOMAIN tok.claims
            /\ DOMAIN state_user = {"id", "role", "permissions"}
            /\ state_user.id = SubNumber(tok.claims.sub)
            /\ state_user.role =
                   (IF "role" \in DOMAIN tok.claims
                    THEN tok.claims.role ELSE "USER")
            /\ state_user.permissions =
                   (IF "permissions" \in DOMAIN tok.claims
                    THEN tok.claims.permissions ELSE <<>>)

C10_Witness ==
    /\ state_user # None
    /\ issued # None /\ Sends(issued.token)
    /\ DOMAIN issued.data = {"sub"}
    /\ state_user = [id |-> 12, role |-> "USER", permissions |-> <<>>]
    /\ called_next

\* C11: the gate classifies every input: every request to a non-exempt path,
\* whatever its Authorization header and token (a validly signed token with
\* arbitrary claims included), ends either rejected with 401 or passed
\* downstream with an Identity Context attached; nothing leaves the gate as an
\* uncaught error.
C11_GateClassifies ==
    ProtectedRequest =>
        \/ /\ ~called_next /\ state_user = None
           /\ response # None /\ response.status_code = 401
        \/ called_next /\ state_user # None

\* The request in flight falls under the exemption rule: OPTIONS, or a path
\* that starts with a public prefix.
Exempt ==
    /\ request # None
    /\ \/ request.method = "OPTIONS"
       \/ Head(request.path) \in
              {"/api/auth", "/docs", "/redoc", "/openapi.json", "/health"}

\* C12: a request is exempt from the gate exactly when its method is OPTIONS
\* or its path starts with a public prefix: an exempt request is passed
\* downstream with no header check and no Identity Context, and GET /health
\* without Authorization header is answered 200; any other request goes
\* through the header and token checks, so it is passed downstream only with
\* an Identity Context built from a decoded token.
C12_Exemption ==
    request # None =>
        /\ Exempt =>
              /\ called_next /\ payload = Unbound /\ state_user = None
              /\ guard = Unbound /\ ~handler_called => response = None
              /\ ( /\ request.method = "GET" /\ request.path = <<"/health">>
                   /\ handler_called )
                 => response.status_code = 200
        /\ ~Exempt =>
              /\ header_missing(request.headers) =>
                     (~called_next /\ response.status_code = 401)
              /\ called_next =>
                     (payload # Unbound /\ payload # None /\ state_user # None)
              /\ ~called_next => response # None

C12_Witness ==
    /\ request # None
    /\ request.method = "GET" /\ request.path = <<"/health">>
    /\ request.headers = NoAuthorization
    /\ called_next /\ state_user = None /\ handler_called
    /\ response = health_check /\ response.status_code = 200

\* C13: a require_permission guard invoked on a request with no Identity
\* Context raises 401 'Authentication required' whatever action and resource
\* it is bound to: the handler does not run and the answer is not 403.
C13_GuardWithoutContext ==
    (guard # Unbound /\ state_user = None) =>
        /\ guard = HTTPException(401, "Authentication required")
        /\ ~handler_called
        /\ response # None /\ response.status_code = 401

C13_Witness ==
    /\ guard # Unbound /\ state_user = None
    /\ route = [module |-> "app.utils.decorators", action |-> "edit",
                resource |-> "courses"]
    /\ Raised(guard) /\ guard.status_code = 401
    /\ response.status_code = 401

\* The accounts the login call that just returned matches by identifier and
\* claimed role.
Matching ==
    {u \in users :
        /\ u.role = login_call.role
        /\ (u.email = login_call.email \/ u.phone = <<login_call.email>>)}

LoginSucceeded == login_call # None /\ ~Raised(login_call.result)

LoginFailed(status_code, detail) ==
    /\ login_call # None
    /\ login_call.result = HTTPException(status_code, detail)

\* What the four checks, taken in order, make of the account u and the
\* supplied password.
ChecksOutcome(u) ==
    IF ~u.is_active THEN LoginFailed(403, "User account is inactive")
    ELSE IF ~u.is_verified
    THEN LoginFailed(403, "User account is not verified")
    ELSE IF u.password_hash # [bcrypt |-> login_call.password]
    THEN LoginFailed(401, "Invalid credentials")
    ELSE LoginSucceeded

\* C14: AuthService.login returns a token only if an account matching the
\* identifier and the claimed role exists, is active, is verified, and the
\* password matches its hash; otherwise it fails with the reason of the first
\* failing check in the order no-match (401), inactive (403), unverified
\* (403), bad password (401).
C14_LoginChecks ==
    login_call # None =>
        IF Matching = {}
        THEN LoginFailed(401, "Invalid credentials for selected role")
        ELSE \E u \in Matching : ChecksOutcome(u)

\* The attempt (e, p, r) names exactly one account, active and verified, with
\* a password that is not the account's.
BadPasswordAttempt(e, p, r) ==
    \E u \in users :
        /\ {v \in users : v.role = r /\ (v.email = e \/ v.phone = <<e>>)} = {u}
        /\ u.is_active /\ u.is_verified
        /\ u.password_hash # [bcrypt |-> p]

\* C15: a login attempt that fails because no account matches the identifier
\* and role, and one that fails because the password is wrong, get the same
\* caller-facing answer, status and message.
C15_NoEnumeration ==
    (login_call # None /\ Matching = {}) =>
        \A e \in Identifiers, p \in Passwords, r \in LoginRoles :
            BadPasswordAttempt(e, p, r) =>
                login(users, e, p, r, now) = login_call.result

\* C16: login is role-specific: for identifier and claimed role R it looks up
\* at most one account, and it succeeds only for an account whose stored role
\* is R; the role claim of the token and the role of the response are R, the
\* stored role of the account the token's sub names.
C16_RoleSpecific ==
    login_call # None =>
        /\ Cardinality(Matching) > 1 => ~LoginSucceeded
        /\ LoginSucceeded =>
              \E u \in users :
                  /\ Matching = {u}
                  /\ u.role = login_call.role
                  /\ login_call.result.value.role = login_call.role
                  /\ login_call.result.value.access_token.claims.role =
                         login_call.role
                  /\ int(login_call.result.value.access_token.claims.sub) =
                         [value |-> u.id]

C16_Witness ==
    /\ LoginSucceeded
    /\ login_call.email = "ann@x" /\ login_call.role = "STUDENT"
    /\ login_call.result.value.role = "STUDENT"
    /\ issued # None
    /\ issued.token = login_call.result.value.access_token
    /\ issued.token.claims.role = "STUDENT"

GateDecision ==
    /\ (ProtectedRequest /\ "Authorization" \notin DOMAIN request.headers)
           => Rejected401
    /\ (issued # None /\ Sends(issued.token) /\ now <= issued.token.claims.exp)
           => /\ called_next /\ state_user # None
              /\ state_user.role = issued.token.claims.role
              /\ state_user.permissions = issued.token.claims.permissions

\* The guard's decision, from the context the gate attached alone.
GuardDecision ==
    (guard # Unbound /\ state_user # None) =>
        /\ (state_user.role = "ADMIN" \/ HoldsRequired) => GuardAllowed
        /\ ~(state_user.role = "ADMIN" \/ HoldsRequired) => GuardForbade

\* C18: neither the gate nor the guard reads or writes the database: a gate
\* step and a guard step leave the users and permissions tables as they are,
\* and their decisions follow from the request (method, path, Authorization
\* header), the secret and the clock, whatever the tables hold.
C18_GatesIgnoreDatabase ==
    [][ /\ (pc = "idle" /\ request' # None) =>
              (UNCHANGED <<users, permission_rows>> /\ GateDecision')
        /\ (pc = "routing" /\ pc' = "done") =>
              (UNCHANGED <<users, permission_rows>> /\ GuardDecision')
      ]_vars

C18_Witness ==
    /\ issued # None /\ Sends(issued.token)
    /\ state_user # None /\ state_user.id = 12
    /\ \E u \in users : u.id = 12 /\ ~u.is_active
    /\ permission_rows # {}
    /\ guard # Unbound /\ GuardForbade

\* The Identity Context the claims of the token of req stand for.
CtxOf(req) ==
    LET claims == req.headers.Authorization[3].v.claims IN
    [id |-> int(claims.sub).value, role |-> claims.role,
     permissions |-> claims.permissions]

\* C19: isolation: under any interleaving of concurrent requests that carry
\* different valid tokens, the Identity Context the guard and the handler of
\* a request read is the one the gate built from the token of that same
\* request: built once, not modified afterwards, and not the context of
\* another request.
C19_Isolation ==
    \A r \in Conns :
        LET c == conn[r] IN
        c.pc \in {"routing", "handling", "done"} /\ c.built # None =>
            /\ c.built = CtxOf(c.request)
            /\ c.guard_saw # Unbound => c.guard_saw = c.built
            /\ c.handler_saw # Unbound => c.handler_saw = c.built
            /\ \A q \in Conns \ {r} :
                   ( /\ conn[q].built # None
                     /\ conn[q].request.headers # c.request.headers )
                   => /\ c.guard_saw # conn[q].built
                      /\ c.handler_saw # conn[q].built

C19_Witness ==
    /\ conn[1].pc = "done" /\ conn[1].handler_saw # Unbound
    /\ conn[1].handler_saw.id = 12 /\ conn[1].handler_saw.role = "STUDENT"
    /\ conn[2].pc = "handling"
    /\ conn[2].guard_saw # Unbound
    /\ conn[2].guard_saw.id = 1 /\ conn[2].guard_saw.role = "ADMIN"

\* C20: every 401 of the gate or of the guard and every 403 of the guard
\* reaches the client as a JSON body of the one key detail, holding the reason.
C20_DetailBody ==
    (response # None /\ response.status_code \in {401, 403}) =>
        DOMAIN response.content = {"detail"}

\* The gate passes a request that carries the token the client holds.
AcceptsHeld ==
    /\ issued # None
    /\ dispatch([method |-> "GET", path |-> <<"/api/student", "/dashboard">>,
                 headers |-> WithAuthorization(Bearer(<<Jws(issued.token)>>))],
                now).call_next

Refused(detail) ==
    /\ response = JSONResponse(401, [detail |-> detail])
    /\ ~called_next /\ ~handler_called /\ state_user = None

\* C22: the gate's checks run in a fixed order and the first failing one
\* gives the 401 reason: header missing, then scheme not bearer, then bearer
\* value empty after trimming ('Token not provided'), then token validation
\* failure, then claims without subject ('User identity missing in token'); a
\* bearer header of whitespace only and a valid token without sub are refused
\* with 401 and the handler does not run.
C22_CheckOrder ==
    ProtectedRequest =>
        LET h == request.headers
            a == h.Authorization
        IN
        IF "Authorization" \notin DOMAIN h \/ a = <<>>
        THEN Refused("Authorization header missing")
        ELSE IF ~(Len(a) >= 2 /\ a[1] = Word("Bearer") /\ a[2] = SP)
        THEN Refused("Invalid authorization format")
        ELSE IF \A i \in 3..Len(a) : a[i] = SP
        THEN Refused("Token not provided")
        ELSE IF ~\E tok \in SentTokens :
                    Sends(tok) /\ GenuineSignature(tok) /\ ~Expired(tok)
        THEN Refused("Invalid token payload")
        ELSE IF \E tok \in SentTokens :
                    /\ Sends(tok)
                    /\ \/ "sub" \notin DOMAIN tok.claims
                       \/ tok.claims.sub = <<>>
        THEN Refused("User identity missing in token")
        ELSE ~Refused("User identity missing in token")

C22_Witness ==
    /\ ProtectedRequest
    /\ issued # None /\ Sends(issued.token) /\ ~Expired(issued.token)
    /\ "sub" \notin DOMAIN issued.data
    /\ "role" \in DOMAIN issued.data /\ issued.data.role = "ADMIN"
    /\ Refused("User identity missing in token")

\* C23: in the application create_app wires, the gate runs before every
\* guard and handler, so whenever a require_permission guard runs, or a
\* handler that reads request.state.user, an Identity Context is attached:
\* the guard's 401 'Authentication required' is the answer to no request, on
\* any registered route and method.
C23_GateBeforeGuard ==
    /\ guard # Unbound => state_user # None
    /\ guard # HTTPException(401, "Authentication required")
    /\ ( /\ handler_called
         /\ \E r \in Routes : r.name = route.name /\ r.check # "none" )
       => state_user # None
    /\ (route # None) => called_next

C23_Witness ==
    /\ request # None /\ request.method = "PUT"
    /\ route # None /\ route.name = "update_course"
    /\ guard = Returned(TRUE) /\ state_user # None /\ state_user.role = "ADMIN"
    /\ service_call = [service |-> "update_course"]

\* C24: a GET of /api/student/dashboard carrying the token login issued to a
\* STUDENT passes the guard and the handler's role check and reaches
\* StudentDashboardService.get_dashboard_data.
C24_StudentDashboardReached ==
    ( /\ pc = "done" /\ request.method = "GET"
      /\ request.path = <<"/api/student", "/dashboard">>
      /\ state_user # None /\ state_user.role = "STUDENT" )
    => /\ guard = Returned(TRUE)
       /\ service_call = [service |-> "student_dashboard"]
       /\ response.status_code = 200

\* C25: a state-changing route under /api/admin changes state only for a
\* caller whose role is ADMIN or who holds the permission the route requires;
\* no other caller soft-deletes a college.
C25_AdminWritesGuarded ==
    /\ ( /\ pc = "done" /\ route # None /\ route.changes
         /\ request.path[1] = "/api/admin" /\ service_call # None )
       => /\ state_user # None
          /\ state_user.role = "ADMIN" \/ HoldsRequired
    /\ (pc = "done" /\ service_call = [service |-> "delete_college"])
       => state_user.role = "ADMIN"

C27_NoDuplicateAssignment ==
    /\ \A st \in tables.students, course_id \in {10, 11} :
          Cardinality(enrollments(tables.student_courses, st.id, course_id)) <= 1
    /\ SubSeq(tables.student_courses, 1, Len(InitialTables.student_courses))
           = InitialTables.student_courses
    /\ \A c \in Sessions :
          (calls[c].stage = "returned" /\ ~Raised(calls[c].result)) =>
             LET call == calls[c]
                 college_id ==
                     (CHOOSE a \in tables.college_admins :
                          a.user_id = call.user.id).college_id
             IN /\ call.result.value.students_assigned = Len(call.created)
                /\ \A k \in 1..Len(call.created) :
                      /\ call.created[k].enrollment_status = "ASSIGNED"
                      /\ call.created[k].progress_percentage = 0
                      /\ call.created[k].course_id = call.payload.course_id
                      /\ \E st \in tables.students :
                            /\ st.id = call.created[k].student_id
                            /\ st.college_id = college_id
                            /\ st.branch_id = call.payload.branch_id
                            /\ st.academic_year_id = call.payload.academic_year_id
                      /\ enrollments(call.snapshot, call.created[k].student_id,
                                     call.payload.course_id) = {}
                      /\ \E i \in 1..Len(tables.student_courses) :
                            tables.student_courses[i] = call.created[k]
                /\ ( \A st \in tables.students :
                         ( /\ st.college_id = college_id
                           /\ st.branch_id = call.payload.branch_id
                           /\ st.academic_year_id = call.payload.academic_year_id )
                         => enrollments(call.snapshot, st.id,
                                        call.payload.course_id) # {} )
                   => call.result.value.students_assigned = 0

C27_Witness ==
    /\ calls[1].stage = "returned" /\ calls[2].stage = "returned"
    /\ calls[1].payload = calls[2].payload /\ calls[1].user = calls[2].user
    /\ calls[1].result = Returned([course_id |-> 10, branch_id |-> 1,
                                   academic_year_id |-> 1,
                                   students_assigned |-> 1])
    /\ calls[2].result = [raised |-> "IntegrityError"]
    /\ Len(tables.student_courses) = 3

\* C28: after any number of update_course_progress calls an enrollment is
\* COMPLETED only if its progress_percentage is at least 100, and has a
\* completion_date only if it is COMPLETED.
C28_CompletionConsistent ==
    \A i \in 1..Len(tables.student_courses) :
        LET row == tables.student_courses[i]
        IN /\ row.enrollment_status = "COMPLETED" => row.progress_percentage >= 100
           /\ row.completion_date # None => row.enrollment_status = "COMPLETED"

\* The tables t as college college_id owns them: its administrators,
\* branches, years and students, and the enrollments, scores and rankings of
\* those students; the course catalogue is common to the colleges.
OwnCollege(t, college_id) ==
    LET mine(student_id) ==
            \E st \in t.students :
                st.id = student_id /\ st.college_id = college_id
        Keep(row) == mine(row.student_id)
    IN [t EXCEPT
          !.college_admins = {a \in @ : a.college_id = college_id},
          !.college_branches = {b \in @ : b.college_id = college_id},
          !.academic_years = {a \in @ : a.college_id = college_id},
          !.students = {st \in @ : st.college_id = college_id},
          !.student_courses = SelectSeq(@, Keep),
          !.student_scores = {sc \in @ : mine(sc.student_id)},
          !.rankings = {rk \in @ : mine(rk.student_id)}]

\* C30: the figures the college dashboard returns to an administrator are
\* computed from that administrator's college only: they are the figures the
\* same call returns over tables holding no other college's rows.
C30_TenantIsolation ==
    ( /\ last_call # None /\ last_call.service = "get_dashboard_data"
      /\ ~Raised(last_call.result) )
    => LET college_id ==
               (CHOOSE a \in tables.college_admins :
                    a.user_id = last_call.user.id).college_id
       IN last_call.result =
              get_dashboard_data(OwnCollege(tables, college_id), last_call.user)

\* C29: when bulk_upload_students returns, successfully_created is the
\* number of students the call persisted, whatever the file, a row with a
\* duplicate email or roll number after accepted rows included; and
\* successfully_created plus the number of failed_records is total_records.
C29_BulkCountsPersisted ==
    ( /\ last_call # None /\ last_call.service = "bulk_upload_students"
      /\ ~Raised(last_call.result) )
    => /\ last_call.result.value.successfully_created = last_call.persisted
       /\ last_call.result.value.successfully_created
              + Len(last_call.result.value.failed_records)
          = last_call.result.value.total_records

====
